---- MODULE Spec2Model ----
(***************************************************************************)
(* Model of the generated-markup normalization engine of figmatocode-v2:   *)
(* Services/ai_services.py (sanitizer, color backfill, navigation linker)  *)
(* and main.py (data-URI externalizer, convert_design).                    *)
(*                                                                         *)
(* Text is modelled at character level where the code's regular            *)
(* expressions look at characters: a string is a sequence of one-character *)
(* strings, <<"g","a","p","-","8">> for "gap-8".                           *)
(***************************************************************************)
EXTENDS Naturals, Integers, Sequences, FiniteSets, TLC

(***************************************************************************)
(* Character-level helpers (Python str methods and re character classes).  *)
(***************************************************************************)
Digits == {"0", "1", "2", "3", "4", "5", "6", "7", "8", "9"}

LowerLetters ==
  {"a", "b", "c", "d", "e", "f", "g", "h", "i", "j", "k", "l", "m",
   "n", "o", "p", "q", "r", "s", "t", "u", "v", "w", "x", "y", "z"}

UpperLetters ==
  {"A", "B", "C", "D", "E", "F", "G", "H", "I", "J", "K", "L", "M",
   "N", "O", "P", "Q", "R", "S", "T", "U", "V", "W", "X", "Y", "Z"}

HexChars == Digits \cup {"a", "b", "c", "d", "e", "f", "A", "B", "C", "D", "E", "F"}

\* re's \w for the ASCII text the model uses
WordChars == Digits \cup LowerLetters \cup UpperLetters \cup {"_"}

\* s[from..] as Python slices it
Drop(s, n) == SubSeq(s, n + 1, Len(s))

Take(s, n) == SubSeq(s, 1, n)

StartsWith(s, p) == Len(s) >= Len(p) /\ Take(s, Len(p)) = p

EndsWith(s, p) == Len(s) >= Len(p) /\ Drop(s, Len(s) - Len(p)) = p

AllIn(s, chars) == \A i \in 1..Len(s) : s[i] \in chars

\* \d+
IsDigits(s) == Len(s) >= 1 /\ AllIn(s, Digits)

\* p occurs in s at offset i (1-based)
OccursAt(s, p, i) == i + Len(p) - 1 <= Len(s) /\ SubSeq(s, i, i + Len(p) - 1) = p

\* Python's "p in s"
Contains(s, p) == \E i \in 1..(Len(s) + 1) : OccursAt(s, p, i)

\* str.replace(old, new): every non-overlapping occurrence, left to right
RECURSIVE ReplaceAll(_, _, _)
ReplaceAll(s, old, new) ==
  IF Len(s) = 0 \/ Len(old) = 0 THEN s
  ELSE IF OccursAt(s, old, 1) THEN new \o ReplaceAll(Drop(s, Len(old)), old, new)
  ELSE <<s[1]>> \o ReplaceAll(Drop(s, 1), old, new)

\* str.lower() on ASCII
LowerOf(c) ==
  CASE c = "A" -> "a" [] c = "B" -> "b" [] c = "C" -> "c" [] c = "D" -> "d"
    [] c = "E" -> "e" [] c = "F" -> "f" [] c = "G" -> "g" [] c = "H" -> "h"
    [] c = "I" -> "i" [] c = "J" -> "j" [] c = "K" -> "k" [] c = "L" -> "l"
    [] c = "M" -> "m" [] c = "N" -> "n" [] c = "O" -> "o" [] c = "P" -> "p"
    [] c = "Q" -> "q" [] c = "R" -> "r" [] c = "S" -> "s" [] c = "T" -> "t"
    [] c = "U" -> "u" [] c = "V" -> "v" [] c = "W" -> "w" [] c = "X" -> "x"
    [] c = "Y" -> "y" [] c = "Z" -> "z" [] OTHER -> c

Lower(s) == [i \in 1..Len(s) |-> LowerOf(s[i])]

\* p, in lower case, occurs in s at offset i when case is ignored
OccursAtNoCase(s, p, i) ==
  i + Len(p) - 1 <= Len(s) /\ \A k \in 1..Len(p) : LowerOf(s[i + k - 1]) = p[k]

\* the first position from i on in s whose character is in chars, Len(s) + 1
\* when there is none
RECURSIVE Find(_, _, _)
Find(s, i, chars) ==
  IF i > Len(s) THEN i ELSE IF s[i] \in chars THEN i ELSE Find(s, i + 1, chars)

\* " ".join(parts) and friends
RECURSIVE Join(_, _)
Join(parts, sep) ==
  IF Len(parts) = 0 THEN <<>>
  ELSE IF Len(parts) = 1 THEN parts[1]
  ELSE parts[1] \o sep \o Join(Tail(parts), sep)

\* re.findall(r"[chars]+", s): the maximal runs of characters of `chars`
RECURSIVE Runs(_, _)
Runs(s, chars) ==
  IF Len(s) = 0 THEN <<>>
  ELSE IF s[1] \notin chars THEN Runs(Drop(s, 1), chars)
  ELSE LET n == CHOOSE k \in 1..Len(s) :
                  /\ AllIn(Take(s, k), chars)
                  /\ (k = Len(s) \/ s[k + 1] \notin chars)
       IN <<Take(s, n)>> \o Runs(Drop(s, n), chars)

\* str.split(): the maximal runs of non-whitespace characters
RECURSIVE Fields(_)
Fields(s) ==
  IF Len(s) = 0 THEN <<>>
  ELSE IF s[1] \in {" ", "\n", "\t"} THEN Fields(Drop(s, 1))
  ELSE LET n == CHOOSE k \in 1..Len(s) :
                  /\ \A i \in 1..k : s[i] \notin {" ", "\n", "\t"}
                  /\ (k = Len(s) \/ s[k + 1] \in {" ", "\n", "\t"})
       IN <<Take(s, n)>> \o Fields(Drop(s, n))

RECURSIVE Pow10(_)
Pow10(n) == IF n = 0 THEN 1 ELSE 10 * Pow10(n - 1)

DigitVal(c) ==
  CASE c = "0" -> 0 [] c = "1" -> 1 [] c = "2" -> 2 [] c = "3" -> 3 [] c = "4" -> 4
    [] c = "5" -> 5 [] c = "6" -> 6 [] c = "7" -> 7 [] c = "8" -> 8 [] c = "9" -> 9

DigitChar(n) == <<"0", "1", "2", "3", "4", "5", "6", "7", "8", "9">>[n + 1]

\* int("123")
RECURSIVE NatOf(_)
NatOf(digs) ==
  IF Len(digs) = 0 THEN 0
  ELSE 10 * NatOf(Take(digs, Len(digs) - 1)) + DigitVal(digs[Len(digs)])

\* str(n) for n >= 0
RECURSIVE NatStr(_)
NatStr(n) == IF n < 10 THEN <<DigitChar(n)>> ELSE NatStr(n \div 10) \o <<DigitChar(n % 10)>>

\* n written with exactly k digits
RECURSIVE PadStr(_, _)
PadStr(n, k) == IF k = 0 THEN <<>> ELSE PadStr(n \div 10, k - 1) \o <<DigitChar(n % 10)>>

Abs(x) == IF x < 0 THEN -x ELSE x

\* the elements of a sequence
Range(s) == {s[i] : i \in 1..Len(s)}

(***************************************************************************)
(* String literals of the source, spelled as character sequences.         *)
(***************************************************************************)
GAP == <<"g", "a", "p">>

SPACEX == <<"s", "p", "a", "c", "e", "-", "x">>

SPACEY == <<"s", "p", "a", "c", "e", "-", "y">>

MINW == <<"m", "i", "n", "-", "w">>

MAXW == <<"m", "a", "x", "-", "w">>

MINH == <<"m", "i", "n", "-", "h">>

MAXH == <<"m", "a", "x", "-", "h">>

TOP == <<"t", "o", "p">>

RIGHT == <<"r", "i", "g", "h", "t">>

BOTTOM == <<"b", "o", "t", "t", "o", "m">>

LEFT == <<"l", "e", "f", "t">>

INSET == <<"i", "n", "s", "e", "t">>

INSETX == <<"i", "n", "s", "e", "t", "-", "x">>

INSETY == <<"i", "n", "s", "e", "t", "-", "y">>

TRANSLATEX == <<"t", "r", "a", "n", "s", "l", "a", "t", "e", "-", "x">>

TRANSLATEY == <<"t", "r", "a", "n", "s", "l", "a", "t", "e", "-", "y">>

ROUNDED == <<"r", "o", "u", "n", "d", "e", "d">>

TEXT == <<"t", "e", "x", "t">>

BG == <<"b", "g">>

BORDER == <<"b", "o", "r", "d", "e", "r">>

LEADING == <<"l", "e", "a", "d", "i", "n", "g">>

DASH_CUSTOM_DASH == <<"-", "c", "u", "s", "t", "o", "m", "-">>

GRAY == <<"g", "r", "a", "y">>

GREY == <<"g", "r", "e", "y">>

DASH_DARK == <<"-", "d", "a", "r", "k">>

DASH_LIGHT == <<"-", "l", "i", "g", "h", "t">>

DASH_LIGHTER == <<"-", "l", "i", "g", "h", "t", "e", "r">>

DASH_MEDIUM == <<"-", "m", "e", "d", "i", "u", "m">>

TRACKING_DASH == <<"t", "r", "a", "c", "k", "i", "n", "g", "-">>

TRACKING_LB == <<"t", "r", "a", "c", "k", "i", "n", "g", "-", "[">>

NEG_DASH == <<"n", "e", "g", "-">>

LINE_HEIGHT_DASH == <<"l", "i", "n", "e", "-", "h", "e", "i", "g", "h", "t", "-">>

LETTER_SPACING_DASH == <<"l", "e", "t", "t", "e", "r", "-", "s", "p", "a", "c", "i", "n", "g", "-">>

BUTTON == <<"b", "u", "t", "t", "o", "n">>

DIV == <<"d", "i", "v">>

NO_UNDERLINE == <<"n", "o", "-", "u", "n", "d", "e", "r", "l", "i", "n", "e">>

TEXT_INHERIT == <<"t", "e", "x", "t", "-", "i", "n", "h", "e", "r", "i", "t">>

INLINE_FLEX == <<"i", "n", "l", "i", "n", "e", "-", "f", "l", "e", "x">>

FLEX == <<"f", "l", "e", "x">>

INLINE_BLOCK == <<"i", "n", "l", "i", "n", "e", "-", "b", "l", "o", "c", "k">>

BLOCK == <<"b", "l", "o", "c", "k">>

GRID == <<"g", "r", "i", "d">>

INLINE_GRID == <<"i", "n", "l", "i", "n", "e", "-", "g", "r", "i", "d">>

DOT_HTML == <<".", "h", "t", "m", "l">>

ANCHOR_MARK == <<"_", "_", "A", "N", "C", "H", "O", "R", "_">>

UNDERSCORES == <<"_", "_">>

HTML_TOKEN == <<"h", "t", "m", "l">>


(***************************************************************************)
(* ClassTokenRewriter: the per-token rule chain of _sanitize_html_output.  *)
(* `defined` is the closure variable defined_classes (DefinedClassSet).    *)
(***************************************************************************)
\* (?:\.\d+)?$
IsDecTail(r) == r = <<>> \/ (Len(r) >= 2 /\ r[1] = "." /\ IsDigits(Tail(r)))

\* (?:-\d+)?(?:\.\d+)?$
IsDashDecTail(r) ==
  \/ IsDecTail(r)
  \/ /\ Len(r) >= 2
     /\ r[1] = "-"
     /\ \E j \in 2..Len(r) : IsDigits(SubSeq(r, 2, j)) /\ IsDecTail(Drop(r, j))

\* ^\d+(?:\.\d+)?$
IsDecNumber(v) == \E i \in 1..Len(v) : IsDigits(Take(v, i)) /\ IsDecTail(Drop(v, i))

\* ^\d+(?:-\d+)?(?:\.\d+)?$
IsDashNumber(v) == \E i \in 1..Len(v) : IsDigits(Take(v, i)) /\ IsDashDecTail(Drop(v, i))

\* ^\d+(?:[_-]\d+)?$
IsAliasNumber(v) ==
  \/ IsDigits(v)
  \/ \E i \in 2..(Len(v) - 1) :
       v[i] \in {"_", "-"} /\ IsDigits(Take(v, i - 1)) /\ IsDigits(Drop(v, i))

\* ^\d+(?:\.\d+)?px$
IsPxNumber(v) == EndsWith(v, <<"p", "x">>) /\ IsDecNumber(Take(v, Len(v) - 2))

VALID_SPACING_SCALE ==
  {<<"0">>, <<"0", ".", "5">>, <<"1">>, <<"1", ".", "5">>, <<"2">>, <<"2", ".", "5">>,
   <<"3">>, <<"3", ".", "5">>, <<"4">>, <<"5">>, <<"6">>, <<"7">>, <<"8">>, <<"9">>,
   <<"1", "0">>, <<"1", "1">>, <<"1", "2">>, <<"1", "4">>, <<"1", "6">>, <<"2", "0">>,
   <<"2", "4">>, <<"2", "8">>, <<"3", "2">>, <<"3", "6">>, <<"4", "0">>, <<"4", "4">>,
   <<"4", "8">>, <<"5", "2">>, <<"5", "6">>, <<"6", "0">>, <<"6", "4">>, <<"7", "2">>,
   <<"8", "0">>, <<"9", "6">>}

\* (gap|p[trblxy]?|m[trblxy]?|space-[xy])
SpacingPrefixes ==
  {GAP, SPACEX, SPACEY,
   <<"p">>, <<"p", "t">>, <<"p", "r">>, <<"p", "b">>, <<"p", "l">>, <<"p", "x">>, <<"p", "y">>,
   <<"m">>, <<"m", "t">>, <<"m", "r">>, <<"m", "b">>, <<"m", "l">>, <<"m", "x">>, <<"m", "y">>}

\* the prefixes tuple of _normalize_numeric_token
SizePrefixes ==
  {<<"w">>, <<"h">>, MINW, MAXW, MINH, MAXH,
   TOP, RIGHT, BOTTOM, LEFT, INSET, INSETX, INSETY,
   TRANSLATEX, TRANSLATEY,
   ROUNDED, ROUNDED \o <<"-", "t">>, ROUNDED \o <<"-", "b">>, ROUNDED \o <<"-", "l">>,
   ROUNDED \o <<"-", "r">>, ROUNDED \o <<"-", "t", "l">>, ROUNDED \o <<"-", "t", "r">>,
   ROUNDED \o <<"-", "b", "l">>, ROUNDED \o <<"-", "b", "r">>}

\* the prefixes tuple of _normalize_px_suffix
PxPrefixes == SpacingPrefixes \cup SizePrefixes

\* ^(p1|p2|...)-(value)$ : the alternatives that match, each followed by "-"
\* and a value: \d+(?:\.\d+)?px when px, \d+(?:-\d+)?(?:\.\d+)? otherwise.  A
\* value starts with a digit, so at most one alternative matches.
PrefixMatches(core, prefixes, px) ==
  {p \in prefixes :
     /\ StartsWith(core, p \o <<"-">>)
     /\ IF px THEN IsPxNumber(Drop(core, Len(p) + 1)) ELSE IsDashNumber(Drop(core, Len(p) + 1))}

Bracketed(prefix, value) == prefix \o <<"-", "[">> \o value \o <<"p", "x", "]">>

_normalize_dash_decimal(value) ==
  IF \E i \in 2..(Len(value) - 1) :
       value[i] = "-" /\ IsDigits(Take(value, i - 1)) /\ IsDigits(Drop(value, i))
  THEN [i \in 1..Len(value) |-> IF value[i] = "-" THEN "." ELSE value[i]]
  ELSE value

\* re.sub(r"-(dark|light|lighter|medium)$", "", name)
DropShadeSuffix(name) ==
  LET sufs == {s \in {DASH_DARK, DASH_LIGHT, DASH_LIGHTER, DASH_MEDIUM} : EndsWith(name, s)}
  IN IF sufs = {} THEN name
     ELSE LET s == CHOOSE x \in sufs : TRUE IN Take(name, Len(name) - Len(s))

_alias_custom_color(token, defined) ==
  IF token \in defined THEN token
  ELSE LET ks == {k \in {TEXT, BG, BORDER} :
                    /\ StartsWith(token, k \o DASH_CUSTOM_DASH)
                    /\ Len(token) > Len(k) + 8
                    /\ AllIn(Drop(token, Len(k) + 8),
                             LowerLetters \cup UpperLetters \cup Digits \cup {"-"})}
       IN IF ks = {} THEN token
          ELSE LET prefix == CHOOSE k \in ks : TRUE
                   name   == Drop(token, Len(prefix) + 8)
                   cand1  == prefix \o DASH_CUSTOM_DASH \o ReplaceAll(name, GRAY, GREY)
                   cand2  == prefix \o DASH_CUSTOM_DASH \o ReplaceAll(name, GREY, GRAY)
                   base   == DropShadeSuffix(name)
                   cand3  == prefix \o DASH_CUSTOM_DASH \o base
               IN IF Contains(name, GRAY) /\ cand1 \in defined THEN cand1
                  ELSE IF Contains(name, GREY) /\ cand2 \in defined THEN cand2
                  ELSE IF base # name /\ cand3 \in defined THEN cand3
                  ELSE token

_replace_spacing_token(token, defined) ==
  IF token \in defined THEN token
  ELSE LET ms == PrefixMatches(token, SpacingPrefixes, FALSE)
       IN IF ms = {} THEN token
          ELSE LET prefix == CHOOSE p \in ms : TRUE
                   value  == _normalize_dash_decimal(Drop(token, Len(prefix) + 1))
               IN Bracketed(prefix, value)

\* re.sub(r"^(p)-([trblxy])-", r"\1\2-", token), then the same for m
_fix_padding_margin_prefixes(token) ==
  IF /\ Len(token) >= 4
     /\ token[1] \in {"p", "m"}
     /\ token[2] = "-"
     /\ token[3] \in {"t", "r", "b", "l", "x", "y"}
     /\ token[4] = "-"
  THEN <<token[1], token[3]>> \o Drop(token, 3)
  ELSE token

_normalize_px_suffix(token, defined) ==
  IF token \in defined THEN token
  ELSE LET neg  == StartsWith(token, <<"-">>)
           core == IF neg THEN Tail(token) ELSE token
           ms   == PrefixMatches(core, PxPrefixes, TRUE)
       IN IF ms = {} THEN token
          ELSE LET prefix    == CHOOSE p \in ms : TRUE
                   rest      == Drop(core, Len(prefix) + 1)
                   value     == Take(rest, Len(rest) - 2)
                   converted == Bracketed(prefix, value)
               IN IF neg THEN <<"-">> \o converted ELSE converted

\* re.match(r"tracking-\[([+-]?[\d_\.]+)px\]", token): anchored at the start
\* only; the value is the optional sign and the maximal run of [\d_.]
TrackingBracketValue(token) ==
  IF ~StartsWith(token, TRACKING_LB) THEN <<>>
  ELSE LET r      == Drop(token, Len(TRACKING_LB))
           signed == Len(r) >= 1 /\ r[1] \in {"+", "-"}
           body   == IF signed THEN Tail(r) ELSE r
           run    == Runs(body, Digits \cup {"_", "."})
       IN IF /\ Len(body) >= 1
             /\ body[1] \in Digits \cup {"_", "."}
             /\ StartsWith(Drop(body, Len(run[1])), <<"p", "x", "]">>)
          THEN (IF signed THEN <<r[1]>> ELSE <<>>) \o run[1]
          ELSE <<>>

\* val.lstrip("+-")
LStripSign(val) == IF Len(val) >= 1 /\ val[1] \in {"+", "-"} THEN Tail(val) ELSE val

\* f"tracking-{'n' if negative else 'p'}{digits with . as _}"
TrackingFlatName(val) ==
  TRACKING_DASH
    \o (IF StartsWith(val, <<"-">>) THEN <<"n">> ELSE <<"p">>)
    \o ReplaceAll(LStripSign(val), <<".">>, <<"_">>)

\* the rule without its test of defined_classes
_replace_tracking_token_undefined(token, defined) ==
  LET val == TrackingBracketValue(token)
  IN IF val = <<>> THEN token ELSE TrackingFlatName(val)

_replace_tracking_token(token, defined) ==
  LET val == TrackingBracketValue(token)
  IN IF val = <<>> THEN token
     ELSE IF TrackingFlatName(val) \in defined THEN TrackingFlatName(val)
     ELSE token

_normalize_text_leading_numeric(token, defined) ==
  IF token \in defined THEN token
  ELSE LET ms == PrefixMatches(token, {TEXT, LEADING}, FALSE)
       IN IF ms = {} THEN token
          ELSE LET prefix == CHOOSE p \in ms : TRUE
               IN Bracketed(prefix, _normalize_dash_decimal(Drop(token, Len(prefix) + 1)))

\* ^tracking-(neg-)?([np])?(-)?(\d+(?:[_-]\d+)?)$
_normalize_tracking_alias(token, defined) ==
  IF token \in defined THEN token
  ELSE IF ~StartsWith(token, TRACKING_DASH) THEN token
  ELSE LET r0 == Drop(token, Len(TRACKING_DASH))
           g1 == StartsWith(r0, NEG_DASH)
           r1 == IF g1 THEN Drop(r0, Len(NEG_DASH)) ELSE r0
           g2 == Len(r1) >= 1 /\ r1[1] \in {"n", "p"}
           r2 == IF g2 THEN Tail(r1) ELSE r1
           g3 == Len(r2) >= 1 /\ r2[1] = "-"
           r3 == IF g3 THEN Tail(r2) ELSE r2
       IN IF ~IsAliasNumber(r3) THEN token
          ELSE LET neg == g1 \/ g3 \/ (g2 /\ r1[1] = "n")
                   val == _normalize_dash_decimal(ReplaceAll(r3, <<"_">>, <<".">>))
               IN TRACKING_LB \o (IF neg THEN <<"-">> ELSE <<>>) \o val \o <<"p", "x", "]">>

_normalize_numeric_token(token, defined) ==
  IF token \in defined THEN token
  ELSE LET neg  == StartsWith(token, <<"-">>)
           core == IF neg THEN Tail(token) ELSE token
           ms   == PrefixMatches(core, SizePrefixes, FALSE)
       IN IF Contains(core, <<"[">>) \/ Contains(core, <<"/">>) \/ ms = {} THEN token
          ELSE LET prefix    == CHOOSE p \in ms : TRUE
                   value     == _normalize_dash_decimal(Drop(core, Len(prefix) + 1))
                   converted == Bracketed(prefix, value)
               IN IF neg THEN <<"-">> \o converted ELSE converted

\* re.sub(r"^leading-line-height-", "line-height-", t), then
\* re.sub(r"^tracking-letter-spacing-", "letter-spacing-", t)
FixCompoundPrefixes(t) ==
  LET a == IF StartsWith(t, LEADING \o <<"-">> \o LINE_HEIGHT_DASH)
           THEN Drop(t, Len(LEADING) + 1) ELSE t
  IN IF StartsWith(a, TRACKING_DASH \o LETTER_SPACING_DASH)
     THEN Drop(a, Len(TRACKING_DASH)) ELSE a

\* the body of the for loop of _replace_class_attr for one token
RuleChain(t, defined) ==
  LET t0 == ReplaceAll(t, <<"\\", ".">>, <<".">>)
      t1 == _replace_tracking_token(t0, defined)
      t2 == _replace_spacing_token(t1, defined)
      t3 == _fix_padding_margin_prefixes(t2)
      t4 == _normalize_px_suffix(t3, defined)
      t5 == _alias_custom_color(t4, defined)
      t6 == _normalize_text_leading_numeric(t5, defined)
      t7 == _normalize_tracking_alias(t6, defined)
  IN _normalize_numeric_token(t7, defined)

\* the loop with the image of each token put in front of the list
RECURSIVE _replace_class_attr_prepend(_, _)
_replace_class_attr_prepend(tokens, defined) ==
  IF Len(tokens) = 0 THEN <<>>
  ELSE IF Head(tokens) = HTML_TOKEN THEN _replace_class_attr_prepend(Tail(tokens), defined)
  ELSE _replace_class_attr_prepend(Tail(tokens), defined)
         \o <<FixCompoundPrefixes(RuleChain(Head(tokens), defined))>>

\* _replace_class_attr on the token list classes.split() of one attribute
RECURSIVE _replace_class_attr(_, _)
_replace_class_attr(tokens, defined) ==
  IF Len(tokens) = 0 THEN <<>>
  ELSE IF Head(tokens) = HTML_TOKEN THEN _replace_class_attr(Tail(tokens), defined)
  ELSE <<FixCompoundPrefixes(RuleChain(Head(tokens), defined))>>
         \o _replace_class_attr(Tail(tokens), defined)

(***************************************************************************)
(* RouteIndex and route matching (NavigationLinker).                       *)
(***************************************************************************)
AlnumLower == LowerLetters \cup Digits

\* re.findall(r"[a-z0-9]+", text.lower())
Words(text) == Runs(Lower(text), AlnumLower)

_slugify(text) == Join(Words(text), <<"-">>)

\* re.sub(r"[^a-z0-9]+", "", text.lower())
_norm(text) == Join(Words(text), <<>>)

_stem(token) ==
  IF EndsWith(token, <<"i", "n", "g">>) /\ Len(token) > 5 THEN Take(token, Len(token) - 3)
  ELSE IF EndsWith(token, <<"e", "d">>) /\ Len(token) > 4 THEN Take(token, Len(token) - 2)
  ELSE IF EndsWith(token, <<"e", "s">>) /\ Len(token) > 4 THEN Take(token, Len(token) - 2)
  ELSE IF EndsWith(token, <<"s">>) /\ Len(token) > 3 THEN Take(token, Len(token) - 1)
  ELSE token

\* set(_stem(t) for t in re.findall(r"[a-z0-9]+", text.lower()))
StemSet(text) == {_stem(w) : w \in Range(Words(text))}

\* one entry of the list _build_route_index returns
Route(name) ==
  [name |-> name, norm |-> _norm(name), tokens |-> StemSet(name),
   file |-> _slugify(name) \o DOT_HTML]

\* screens: the layout's screens in document order (pages, then screens),
\* each a record with the display name in `screen`; unnamed screens are skipped
RECURSIVE _build_route_index(_)
_build_route_index(screens) ==
  IF Len(screens) = 0 THEN <<>>
  ELSE IF Head(screens).screen = <<>> THEN _build_route_index(Tail(screens))
  ELSE <<Route(Head(screens).screen)>> \o _build_route_index(Tail(screens))

\* _match_route's None; a route's file always ends in ".html"
NoRoute == <<>>

\* the first loop of _match_route
RECURSIVE ExactRoute(_, _)
ExactRoute(label_norm, routes) ==
  IF Len(routes) = 0 THEN NoRoute
  ELSE IF label_norm = Head(routes).norm THEN Head(routes).file
  ELSE ExactRoute(label_norm, Tail(routes))

\* the scoring loop keeping the latest of equal scores
RECURSIVE BestRouteLatest(_, _, _)
BestRouteLatest(label_set, routes, best) ==
  IF Len(routes) = 0 THEN best
  ELSE LET r     == Head(routes)
           inter == label_set \cap r.tokens
           num   == Cardinality(inter)
           den   == IF Cardinality(r.tokens) > 1 THEN Cardinality(r.tokens) ELSE 1
       IN IF inter = {} THEN BestRouteLatest(label_set, Tail(routes), best)
          ELSE IF num * best.den >= best.num * den
          THEN BestRouteLatest(label_set, Tail(routes), [num |-> num, den |-> den, file |-> r.file])
          ELSE BestRouteLatest(label_set, Tail(routes), best)

\* the second loop of _match_route; best is (score, file) with the score
\* len(inter) / max(len(tokens), 1) kept as the fraction num/den
RECURSIVE BestRoute(_, _, _)
BestRoute(label_set, routes, best) ==
  IF Len(routes) = 0 THEN best
  ELSE LET r     == Head(routes)
           inter == label_set \cap r.tokens
           num   == Cardinality(inter)
           den   == IF Cardinality(r.tokens) > 1 THEN Cardinality(r.tokens) ELSE 1
       IN IF inter = {} THEN BestRoute(label_set, Tail(routes), best)
          ELSE IF num * best.den > best.num * den
          THEN BestRoute(label_set, Tail(routes), [num |-> num, den |-> den, file |-> r.file])
          ELSE BestRoute(label_set, Tail(routes), best)

_match_route(label, routes) ==
  IF label = <<>> THEN NoRoute
  ELSE IF ExactRoute(_norm(label), routes) # NoRoute THEN ExactRoute(_norm(label), routes)
  ELSE IF StemSet(label) = {} THEN NoRoute
  ELSE LET best == BestRoute(StemSet(label), routes, [num |-> 0, den |-> 1, file |-> NoRoute])
       IN IF 2 * best.num >= best.den THEN best.file ELSE NoRoute

(***************************************************************************)
(* GeneratedDocument.  The document text is held as the sequence of its    *)
(* lexemes: opening tags (name and attributes), closing tags and text      *)
(* runs, in text order.  A tag's name is the characters after "<" up to    *)
(* the first blank or ">", so that a tag pattern of the linker is matched  *)
(* against the characters it would see.                                    *)
(***************************************************************************)
NoAttrs ==
  [hasRel |-> FALSE, hasClass |-> FALSE, cls |-> <<>>, hasHref |-> FALSE, href |-> <<>>,
   hasType |-> FALSE, hasSrc |-> FALSE, src |-> <<>>, srcQuote |-> "\""]

ClassAttr(tokens) == [NoAttrs EXCEPT !.hasClass = TRUE, !.cls = tokens]

HrefAttr(url) == [NoAttrs EXCEPT !.hasHref = TRUE, !.href = url]

\* src=<quote>url<quote>
SrcAttr(url, quote) == [NoAttrs EXCEPT !.hasSrc = TRUE, !.src = url, !.srcQuote = quote]

OpenTag(name, a) == [k |-> "open", name |-> name, a |-> a, s |-> <<>>, rules |-> <<>>]

CloseTag(name) == [k |-> "close", name |-> name, a |-> NoAttrs, s |-> <<>>, rules |-> <<>>]

TextRun(s) == [k |-> "text", name |-> <<>>, a |-> NoAttrs, s |-> s, rules |-> <<>>]

\* a rule ".sel { prop: val; }" of a style block; sel is the text after the dot
Rule(sel, prop, val) == [sel |-> sel, prop |-> prop, val |-> val]

\* a <style> block with its rules; tailwind is type="text/tailwindcss".  The
\* rules stand in "@layer utilities { ... }"; s, when not empty, is the font
\* family of a leading "@layer base { body { font-family: ... } }"
StyleBlock(tailwind, rules) ==
  [k |-> "style", name |-> <<>>, a |-> [NoAttrs EXCEPT !.hasType = tailwind], s |-> <<>>,
   rules |-> rules]

\* doc[i..j] replaced by `mid`
Splice(doc, i, j, mid) == SubSeq(doc, 1, i - 1) \o mid \o SubSeq(doc, j + 1, Len(doc))

\* "<" + prefix occurs in the lower-cased text of lexemes `inner`
HasOpenStarting(inner, prefix) ==
  \E i \in 1..Len(inner) : inner[i].k = "open" /\ StartsWith(Lower(inner[i].name), prefix)

\* re.sub(r"<[^>]+>", "", text): what is left is the text runs
RECURSIVE _strip_tags(_)
_strip_tags(inner) ==
  IF Len(inner) = 0 THEN <<>>
  ELSE (IF Head(inner).k = "text" THEN Head(inner).s ELSE <<>>) \o _strip_tags(Tail(inner))

\* " ".join(text.split())
_collapse_ws(text) == Join(Fields(text), <<" ">>)

\* re.search(r"\b(inline-flex|flex|inline-block|block|grid|inline-grid)\b", classes)
HasDisplayClass(classes) ==
  \E w \in {INLINE_FLEX, FLEX, INLINE_BLOCK, BLOCK, GRID, INLINE_GRID} :
    \E i \in 1..Len(classes) :
      /\ OccursAt(classes, w, i)
      /\ (i = 1 \/ classes[i - 1] \notin WordChars)
      /\ (i + Len(w) > Len(classes) \/ classes[i + Len(w)] \notin WordChars)

\* _with_anchor_classes, on the attributes of the tag being converted
_with_anchor_classes(a) ==
  IF a.hasClass
  THEN LET c0 == Join(a.cls, <<" ">>)
           t1 == IF Contains(c0, NO_UNDERLINE) THEN a.cls ELSE Append(a.cls, NO_UNDERLINE)
           t2 == IF Contains(Join(t1, <<" ">>), TEXT_INHERIT) THEN t1 ELSE Append(t1, TEXT_INHERIT)
           t3 == IF HasDisplayClass(Join(t2, <<" ">>)) THEN t2 ELSE Append(t2, INLINE_FLEX)
       IN [a EXCEPT !.cls = t3]
  ELSE [a EXCEPT !.hasClass = TRUE, !.cls = <<NO_UNDERLINE, TEXT_INHERIT, INLINE_FLEX>>]

\* the elements the pattern of _convert_tag matches from lexeme i on,
\* as re.sub finds them: leftmost first, each ending at the first </tag>
\* after its opening tag, the scan resuming after the match
RECURSIVE TagMatches(_, _, _)
TagMatches(tag, doc, i) ==
  IF i > Len(doc) THEN <<>>
  ELSE IF doc[i].k = "open" /\ StartsWith(Lower(doc[i].name), tag)
  THEN LET ends == {j \in (i + 1)..Len(doc) : doc[j].k = "close" /\ Lower(doc[j].name) = tag}
       IN IF ends = {} THEN <<>>
          ELSE LET j == CHOOSE e \in ends : \A f \in ends : e <= f
               IN <<[open |-> i, close |-> j]>> \o TagMatches(tag, doc, j + 1)
  ELSE TagMatches(tag, doc, i + 1)

\* the label _convert_tag._replace computes for the match m
MatchLabel(doc, m) == _collapse_ws(_strip_tags(SubSeq(doc, m.open + 1, m.close - 1)))

\* the route file _convert_tag._replace links the match m to, or NoRoute
MatchHref(tag, doc, m, allow_nested_div, routes) ==
  LET inner == SubSeq(doc, m.open + 1, m.close - 1)
  IN IF ~allow_nested_div /\ HasOpenStarting(inner, DIV) THEN NoRoute
     ELSE IF HasOpenStarting(inner, <<"a">>) THEN NoRoute
     ELSE _match_route(MatchLabel(doc, m), routes)

\* _convert_tag._replace applied to every match, right to left (a
\* replacement keeps the number of lexemes, so positions stay valid)
RECURSIVE ReplaceMatches(_, _, _, _, _)
ReplaceMatches(tag, doc, ms, allow_nested_div, routes) ==
  IF Len(ms) = 0 THEN doc
  ELSE LET m    == Head(ms)
           href == MatchHref(tag, doc, m, allow_nested_div, routes)
           old  == doc[m.open]
           a1   == _with_anchor_classes([old.a EXCEPT !.hasType = FALSE])
           new  == OpenTag(<<"a">> \o Drop(old.name, Len(tag)),
                           [a1 EXCEPT !.hasHref = TRUE, !.href = href])
           rest == ReplaceMatches(tag, doc, Tail(ms), allow_nested_div, routes)
       IN IF href = NoRoute THEN rest
          ELSE [rest EXCEPT ![m.open] = new, ![m.close] = CloseTag(<<"a">>)]

_convert_tag(tag, doc, allow_nested_div, routes) ==
  ReplaceMatches(tag, doc, TagMatches(tag, doc, 1), allow_nested_div, routes)

\* <a\b : the tag name is "a" followed by a non-word character
IsAnchorOpen(x) ==
  /\ x.k = "open"
  /\ StartsWith(Lower(x.name), <<"a">>)
  /\ (Len(x.name) = 1 \/ x.name[2] \notin WordChars)

\* f"__ANCHOR_{n}__"
Placeholder(n) == TextRun(ANCHOR_MARK \o NatStr(n) \o UNDERSCORES)

\* _protect_anchors: [protected |-> document, anchors |-> stashed texts]
RECURSIVE ProtectFrom(_, _, _)
ProtectFrom(doc, i, anchors) ==
  IF i > Len(doc) THEN [protected |-> doc, anchors |-> anchors]
  ELSE IF IsAnchorOpen(doc[i])
  THEN LET ends == {j \in (i + 1)..Len(doc) : doc[j].k = "close" /\ Lower(doc[j].name) = <<"a">>}
       IN IF ends = {} THEN [protected |-> doc, anchors |-> anchors]
          ELSE LET j == CHOOSE e \in ends : \A f \in ends : e <= f
               IN ProtectFrom(Splice(doc, i, j, <<Placeholder(Len(anchors))>>), i + 1,
                              Append(anchors, SubSeq(doc, i, j)))
  ELSE ProtectFrom(doc, i + 1, anchors)

_protect_anchors(doc) == ProtectFrom(doc, 1, <<>>)

\* str.replace of one placeholder by its anchor, everywhere
RECURSIVE RestoreOne(_, _, _)
RestoreOne(doc, mark, anchor) ==
  IF Len(doc) = 0 THEN <<>>
  ELSE (IF Head(doc) = mark THEN anchor ELSE <<Head(doc)>>) \o RestoreOne(Tail(doc), mark, anchor)

RECURSIVE RestoreFrom(_, _, _)
RestoreFrom(doc, anchors, idx) ==
  IF idx >= Len(anchors) THEN doc
  ELSE RestoreFrom(RestoreOne(doc, Placeholder(idx), anchors[idx + 1]), anchors, idx + 1)

_restore_anchors(doc, anchors) == RestoreFrom(doc, anchors, 0)

\* the paragraph pass with its anchor protection
ConvertParagraphs(doc, routes) ==
  LET p == _protect_anchors(doc)
  IN _restore_anchors(_convert_tag(<<"p">>, p.protected, TRUE, routes), p.anchors)

_convert_nav_to_links(doc, screens) ==
  LET routes == _build_route_index(screens)
  IN IF Len(doc) = 0 \/ Len(routes) = 0 THEN doc
     ELSE ConvertParagraphs(
            _convert_tag(DIV, _convert_tag(BUTTON, doc, TRUE, routes), FALSE, routes), routes)

(***************************************************************************)
(* DefinedClassIndex and color backfill.                                   *)
(***************************************************************************)
\* the selectors ".name {" of the tailwind style blocks, each as written
\* and with its backslashes removed
_extract_defined_classes(doc) ==
  UNION {UNION {{doc[i].rules[r].sel, SelectSeq(doc[i].rules[r].sel, LAMBDA c : c # "\\")} :
                r \in 1..Len(doc[i].rules)} :
         i \in {n \in 1..Len(doc) : doc[n].k = "style" /\ doc[n].a.hasType}}

COLOR == <<"c", "o", "l", "o", "r">>

BACKGROUND_COLOR == <<"b", "a", "c", "k", "g", "r", "o", "u", "n", "d", "-", "c", "o", "l", "o", "r">>

BORDER_COLOR == <<"b", "o", "r", "d", "e", "r", "-", "c", "o", "l", "o", "r">>

ColorKinds == {TEXT, BG, BORDER}

\* the pattern \b(text|bg|border)-custom-([0-9a-fA-F]{3,8})\b matches s at
\* position i with kind and n hex characters
ColorRefAt(s, i, kind, n) ==
  /\ (i = 1 \/ s[i - 1] \notin WordChars)
  /\ OccursAt(s, kind \o DASH_CUSTOM_DASH, i)
  /\ LET h == i + Len(kind) + Len(DASH_CUSTOM_DASH)
     IN /\ h + n - 1 <= Len(s)
        /\ \A j \in h..(h + n - 1) : s[j] \in HexChars
        /\ (h + n > Len(s) \/ s[h + n] \notin WordChars)

\* re.findall of the pattern over the text s: (kind, hex) pairs in text order
RECURSIVE ColorRefsFrom(_, _)
ColorRefsFrom(s, i) ==
  IF i > Len(s) THEN <<>>
  ELSE IF \E kind \in ColorKinds : \E n \in 3..8 : ColorRefAt(s, i, kind, n)
  THEN LET kind == CHOOSE q \in ColorKinds : \E n \in 3..8 : ColorRefAt(s, i, q, n)
           n    == CHOOSE q \in 3..8 : ColorRefAt(s, i, kind, q)
           h    == i + Len(kind) + Len(DASH_CUSTOM_DASH)
       IN <<[kind |-> kind, hex |-> SubSeq(s, h, h + n - 1)]>> \o ColorRefsFrom(s, h + n)
  ELSE ColorRefsFrom(s, i + 1)

RECURSIVE ColorRefsOfAll(_)
ColorRefsOfAll(texts) ==
  IF Len(texts) = 0 THEN <<>>
  ELSE ColorRefsFrom(texts[1], 1) \o ColorRefsOfAll(Tail(texts))

\* the pieces of a lexeme's text the pattern can match in, in text order
LexemeTexts(x) ==
  IF x.k = "text" THEN <<x.s>>
  ELSE IF x.k = "open" THEN x.a.cls
  ELSE IF x.k = "style" THEN [r \in 1..Len(x.rules) |-> x.rules[r].sel]
  ELSE <<>>

RECURSIVE ColorMatches(_)
ColorMatches(doc) ==
  IF Len(doc) = 0 THEN <<>>
  ELSE ColorRefsOfAll(LexemeTexts(doc[1])) \o ColorMatches(Tail(doc))

HexVal(c) ==
  CASE c \in Digits -> DigitVal(c)
    [] c = "a" -> 10 [] c = "b" -> 11 [] c = "c" -> 12
    [] c = "d" -> 13 [] c = "e" -> 14 [] c = "f" -> 15

HexByte(h) == 16 * HexVal(h[1]) + HexVal(h[2])

\* f"{n / 255:.3f}"; n * 1000 / 255 is never half way between two integers
Alpha3f(n) ==
  LET q == (2000 * n + 255) \div 510
  IN NatStr(q \div 1000) \o <<".">> \o PadStr(q % 1000, 3)

_hex_to_color(hex_value) ==
  LET low == Lower(hex_value)
      hex == IF Len(low) = 3 THEN <<low[1], low[1], low[2], low[2], low[3], low[3]>> ELSE low
  IN IF Len(hex) = 8
     THEN <<"r", "g", "b", "a", "(">> \o NatStr(HexByte(SubSeq(hex, 1, 2))) \o <<",", " ">>
            \o NatStr(HexByte(SubSeq(hex, 3, 4))) \o <<",", " ">>
            \o NatStr(HexByte(SubSeq(hex, 5, 6))) \o <<",", " ">>
            \o Alpha3f(HexByte(SubSeq(hex, 7, 8))) \o <<")">>
     ELSE <<"#">> \o hex

ColorClassName(m) == m.kind \o DASH_CUSTOM_DASH \o m.hex

ColorProp(kind) ==
  IF kind = TEXT THEN COLOR ELSE IF kind = BG THEN BACKGROUND_COLOR ELSE BORDER_COLOR

\* the loop over the matches, with every match taken as new
RECURSIVE MissingColorRulesUnseen(_, _, _)
MissingColorRulesUnseen(matches, defined, seen) ==
  IF Len(matches) = 0 THEN <<>>
  ELSE LET m == Head(matches)
           class_name == ColorClassName(m)
       IN IF class_name \in defined
          THEN MissingColorRulesUnseen(Tail(matches), defined, seen)
          ELSE <<Rule(class_name, ColorProp(m.kind), _hex_to_color(m.hex))>>
                 \o MissingColorRulesUnseen(Tail(matches), defined, seen \cup {class_name})

\* the loop over the matches: one rule per class name neither defined nor seen
RECURSIVE MissingColorRules(_, _, _)
MissingColorRules(matches, defined, seen) ==
  IF Len(matches) = 0 THEN <<>>
  ELSE LET m == Head(matches)
           class_name == ColorClassName(m)
       IN IF class_name \in defined \/ class_name \in seen
          THEN MissingColorRules(Tail(matches), defined, seen)
          ELSE <<Rule(class_name, ColorProp(m.kind), _hex_to_color(m.hex))>>
                 \o MissingColorRules(Tail(matches), defined, seen \cup {class_name})

HEAD == <<"h", "e", "a", "d">>

HasHeadClose(doc) == \E i \in 1..Len(doc) : doc[i].k = "close" /\ Lower(doc[i].name) = HEAD

\* html + "\n" + style_block
AppendBlock(doc, block) ==
  IF Len(doc) > 0 /\ doc[Len(doc)].k = "text"
  THEN SubSeq(doc, 1, Len(doc) - 1) \o <<TextRun(doc[Len(doc)].s \o <<"\n">>), block>>
  ELSE doc \o <<TextRun(<<"\n">>), block>>

\* style_block + "\n" put before the first </head>, or appended to the text
InjectStyleBlock(doc, block) ==
  IF HasHeadClose(doc)
  THEN LET i == CHOOSE n \in 1..Len(doc) :
                  /\ doc[n].k = "close" /\ Lower(doc[n].name) = HEAD
                  /\ \A j \in 1..(n - 1) : ~(doc[j].k = "close" /\ Lower(doc[j].name) = HEAD)
       IN SubSeq(doc, 1, i - 1) \o <<block, TextRun(<<"\n">>)>> \o SubSeq(doc, i, Len(doc))
  ELSE AppendBlock(doc, block)

_ensure_missing_color_utilities(doc) ==
  LET rules == MissingColorRules(ColorMatches(doc), _extract_defined_classes(doc), {})
  IN IF Len(doc) = 0 \/ Len(rules) = 0 THEN doc
     ELSE InjectStyleBlock(doc, StyleBlock(TRUE, rules))

(***************************************************************************)
(* DataURIExternalizer: _extract_data_uris.  Bytes are sequences of        *)
(* numbers 0..255; the asset directory is a function from file names to    *)
(* bytes.                                                                  *)
(***************************************************************************)
Base64Alphabet ==
  <<"A", "B", "C", "D", "E", "F", "G", "H", "I", "J", "K", "L", "M", "N",
    "O", "P", "Q", "R", "S", "T", "U", "V", "W", "X", "Y", "Z", "a", "b",
    "c", "d", "e", "f", "g", "h", "i", "j", "k", "l", "m", "n", "o", "p",
    "q", "r", "s", "t", "u", "v", "w", "x", "y", "z", "0", "1", "2", "3",
    "4", "5", "6", "7", "8", "9", "+", "/">>

Base64Val(c) == (CHOOSE i \in 1..Len(Base64Alphabet) : Base64Alphabet[i] = c) - 1

IsBase64Char(c) == \E i \in 1..Len(Base64Alphabet) : Base64Alphabet[i] = c

\* binascii.a2b_base64 as base64.b64decode calls it: characters outside the
\* alphabet are skipped, a completed pad sequence ends the input, and a
\* quad left open at the end is an error.  st holds the position in the
\* quad, the bits left over, the pads seen and the bytes so far.
RECURSIVE A2bBase64(_, _)
A2bBase64(data, st) ==
  IF Len(data) = 0
  THEN [ok |-> st.quad_pos = 0, raw |-> st.out]
  ELSE LET c == Head(data) IN
    IF c = "="
    THEN IF st.quad_pos >= 2 /\ st.quad_pos + st.pads + 1 >= 4
         THEN [ok |-> TRUE, raw |-> st.out]
         ELSE CHOOSE r \in
           {A2bBase64(Tail(data), next) :
              next \in {[st EXCEPT !.pads = IF st.quad_pos >= 2 THEN st.pads + 1 ELSE st.pads]}} : TRUE
    ELSE IF ~IsBase64Char(c) THEN A2bBase64(Tail(data), st)
    ELSE CHOOSE r \in
      {A2bBase64(Tail(data), next) :
         next \in {LET v == Base64Val(c) IN
           CASE st.quad_pos = 0 ->
                  [quad_pos |-> 1, left |-> v, pads |-> 0, out |-> st.out]
             [] st.quad_pos = 1 ->
                  [quad_pos |-> 2, left |-> v % 16, pads |-> 0,
                   out |-> Append(st.out, st.left * 4 + v \div 16)]
             [] st.quad_pos = 2 ->
                  [quad_pos |-> 3, left |-> v % 4, pads |-> 0,
                   out |-> Append(st.out, st.left * 16 + v \div 4)]
             [] st.quad_pos = 3 ->
                  [quad_pos |-> 0, left |-> 0, pads |-> 0,
                   out |-> Append(st.out, st.left * 64 + v)]}} : TRUE

b64decode(data) == A2bBase64(data, [quad_pos |-> 0, left |-> 0, pads |-> 0, out |-> <<>>])

\* the printable ASCII characters of codes 32..95 and of codes 97..126
AsciiLow ==
  <<" ", "!", "\"", "#", "$", "%", "&", "'", "(", ")", "*", "+", ",", "-",
    ".", "/", "0", "1", "2", "3", "4", "5", "6", "7", "8", "9", ":", ";",
    "<", "=", ">", "?", "@", "A", "B", "C", "D", "E", "F", "G", "H", "I",
    "J", "K", "L", "M", "N", "O", "P", "Q", "R", "S", "T", "U", "V", "W",
    "X", "Y", "Z", "[", "\\", "]", "^", "_">>

AsciiHigh ==
  <<"a", "b", "c", "d", "e", "f", "g", "h", "i", "j", "k", "l", "m", "n",
    "o", "p", "q", "r", "s", "t", "u", "v", "w", "x", "y", "z", "{", "|",
    "}", "~">>

Ord(c) ==
  IF c = "\n" THEN 10 ELSE IF c = "\t" THEN 9
  ELSE IF \E i \in 1..Len(AsciiLow) : AsciiLow[i] = c
  THEN 31 + (CHOOSE i \in 1..Len(AsciiLow) : AsciiLow[i] = c)
  ELSE 96 + (CHOOSE i \in 1..Len(AsciiHigh) : AsciiHigh[i] = c)

IsHexDigit(c) == c \in HexChars

\* urllib.parse.unquote(data).encode("utf-8"), for ASCII text whose escapes
\* name ASCII characters
RECURSIVE UnquoteBytes(_)
UnquoteBytes(data) ==
  IF Len(data) = 0 THEN <<>>
  ELSE IF data[1] = "%" /\ Len(data) >= 3 /\ IsHexDigit(data[2]) /\ IsHexDigit(data[3])
  THEN <<16 * HexVal(LowerOf(data[2])) + HexVal(LowerOf(data[3]))>> \o UnquoteBytes(Drop(data, 3))
  ELSE <<Ord(data[1])>> \o UnquoteBytes(Drop(data, 1))

DATA_COLON == <<"d", "a", "t", "a", ":">>

BASE64_COMMA == <<";", "b", "a", "s", "e", "6", "4", ",">>

SVG_MIME == <<"i", "m", "a", "g", "e", "/", "s", "v", "g", "+", "x", "m", "l">>

\* "data:([^;]+);base64,(.+)" against the whole value v, case ignored:
\* the position of the ";" that ends the media type, 0 when v does not match
Base64UriSplit(v) ==
  LET p == Find(v, Len(DATA_COLON) + 1, {";"})
  IN IF /\ OccursAtNoCase(v, DATA_COLON, 1)
        /\ p >= Len(DATA_COLON) + 2
        /\ OccursAtNoCase(v, BASE64_COMMA, p)
        /\ p + Len(BASE64_COMMA) <= Len(v)
     THEN p
     ELSE 0

\* "data:image/svg\+xml(?:;charset=[^,;]+)?(?:;utf8)?,(.+)" against the whole
\* value v, case ignored: the position of the "," that starts the text, 0
\* when v does not match
SvgTextUriSplit(v) ==
  LET h    == DATA_COLON \o SVG_MIME
      cs   == <<";", "c", "h", "a", "r", "s", "e", "t", "=">>
      u8   == <<";", "u", "t", "f", "8">>
      afterCharset ==
        {Len(h) + 1} \cup
        {q \in (Len(h) + Len(cs) + 2)..(Len(v) + 1) :
           /\ OccursAtNoCase(v, cs, Len(h) + 1)
           /\ \A j \in (Len(h) + Len(cs) + 1)..(q - 1) : v[j] \notin {",", ";"}}
      afterUtf8 == afterCharset \cup {q + Len(u8) : q \in {r \in afterCharset : OccursAtNoCase(v, u8, r)}}
  IN IF OccursAtNoCase(v, h, 1)
     THEN CHOOSE r \in
            {IF commas = {} THEN 0 ELSE CHOOSE q \in commas : \A t \in commas : t <= q :
               commas \in {{q \in afterUtf8 : q < Len(v) /\ v[q] = ","}}} : TRUE
     ELSE 0

\* the extension _write_asset infers from the media type
AssetExt(mime) ==
  IF Contains(mime, <<"s", "v", "g">>) THEN <<"s", "v", "g">>
  ELSE IF Contains(mime, <<"p", "n", "g">>) THEN <<"p", "n", "g">>
  ELSE IF Contains(mime, <<"j", "p", "e", "g">>) \/ Contains(mime, <<"j", "p", "g">>) THEN <<"j", "p", "g">>
  ELSE IF Contains(mime, <<"w", "e", "b", "p">>) THEN <<"w", "e", "b", "p">>
  ELSE <<"b", "i", "n">>

\* a file name that leaves the content hash out
AssetFilenameOfType(raw, mime, sha1) == <<"i", "n", "l", "i", "n", "e", "-">> \o <<".">> \o AssetExt(mime)

AssetFilename(raw, mime, sha1) == <<"i", "n", "l", "i", "n", "e", "-">> \o sha1[raw] \o <<".">> \o AssetExt(mime)

UrlPrefix(public_assets) == IF public_assets THEN <<"/", "a", "s", "s", "e", "t", "s">> ELSE <<"a", "s", "s", "e", "t", "s">>

\* _write_asset without the os.path.exists test: the file is written anew
\* on every call
_write_asset_unchecked(raw, mime, sha1, fs) ==
  LET filename == AssetFilename(raw, mime, sha1)
  IN [files  |-> [n \in DOMAIN fs.files \cup {filename} |->
                    IF n = filename THEN raw ELSE fs.files[n]],
      writes |-> Append(fs.writes, filename)]

\* _write_asset on the directory fs = [files, writes]: the file is written
\* only when no file of its name exists
_write_asset(raw, mime, sha1, fs) ==
  LET filename == AssetFilename(raw, mime, sha1)
  IN IF filename \in DOMAIN fs.files THEN fs
     ELSE [files  |-> [n \in DOMAIN fs.files \cup {filename} |->
                         IF n = filename THEN raw ELSE fs.files[n]],
           writes |-> Append(fs.writes, filename)]

\* the payload a data URI carries: whether the pattern of the pass matches
\* (text: the SVG-text pattern, else the base64 pattern), whether the
\* payload decodes, its bytes and its media type
RefPayload(uri, text) ==
  IF text
  THEN LET q == SvgTextUriSplit(uri)
       IN IF q = 0 THEN [match |-> FALSE, ok |-> FALSE, raw |-> <<>>, mime |-> <<>>]
          ELSE [match |-> TRUE, ok |-> TRUE, raw |-> UnquoteBytes(Drop(uri, q)), mime |-> SVG_MIME]
  ELSE LET p == Base64UriSplit(uri)
       IN IF p = 0 THEN [match |-> FALSE, ok |-> FALSE, raw |-> <<>>, mime |-> <<>>]
          ELSE CHOOSE r \in
                 {[match |-> TRUE, ok |-> dec.ok, raw |-> dec.raw,
                   mime |-> Lower(SubSeq(uri, Len(DATA_COLON) + 1, p - 1))] :
                    dec \in {b64decode(Drop(uri, p + Len(BASE64_COMMA) - 1))}} : TRUE

AssetUrl(raw, mime, sha1, public_assets) ==
  UrlPrefix(public_assets) \o <<"/">> \o AssetFilename(raw, mime, sha1)

\* the text of an opening tag up to its src attribute, attributes in the
\* order rel, class, href, type, src
RenderAttrs(x) ==
  (IF x.a.hasRel THEN <<" ", "r", "e", "l", "=", "\"", "s", "t", "y", "l", "e", "s", "h", "e", "e", "t", "\"">> ELSE <<>>)
    \o (IF x.a.hasClass THEN <<" ", "c", "l", "a", "s", "s", "=", "\"">> \o Join(x.a.cls, <<" ">>) \o <<"\"">> ELSE <<>>)
    \o (IF x.a.hasHref THEN <<" ", "h", "r", "e", "f", "=", "\"">> \o x.a.href \o <<"\"">> ELSE <<>>)
    \o (IF x.a.hasType THEN <<" ", "t", "y", "p", "e", "=", "\"", "b", "u", "t", "t", "o", "n", "\"">> ELSE <<>>)

APPLY == <<"@", "a", "p", "p", "l", "y">>

\* one declaration of a rule: "prop: val;", or "@apply val;"
RenderRule(r) ==
  <<" ", " ", ".">> \o r.sel \o <<" ", "{", " ">>
    \o (IF r.prop = APPLY THEN APPLY \o <<" ">> ELSE r.prop \o <<":", " ">>)
    \o r.val \o <<";", " ", "}">>

\* the text of a <style> block
RenderStyle(x) ==
  (IF x.a.hasType THEN <<"<", "s", "t", "y", "l", "e", " ", "t", "y", "p", "e", "=", "\"", "t", "e", "x", "t", "/", "t", "a", "i", "l", "w", "i", "n", "d", "c", "s", "s", "\"", ">", "\n">> ELSE <<"<", "s", "t", "y", "l", "e", ">", "\n">>)
    \o (IF x.s = <<>> THEN <<>>
        ELSE <<"@", "l", "a", "y", "e", "r", " ", "b", "a", "s", "e", " ", "{", "\n", " ", " ", "b", "o", "d", "y", " ", "{", " ", "f", "o", "n", "t", "-", "f", "a", "m", "i", "l", "y", ":", " ", "'">> \o x.s \o <<"'", ",", " ", "s", "a", "n", "s", "-", "s", "e", "r", "i", "f", ";", " ", "}", "\n", "}", "\n">>)
    \o <<"@", "l", "a", "y", "e", "r", " ", "u", "t", "i", "l", "i", "t", "i", "e", "s", " ", "{", "\n">>
    \o Join([r \in 1..Len(x.rules) |-> RenderRule(x.rules[r])], <<"\n">>)
    \o <<"\n", "}", "\n", "<", "/", "s", "t", "y", "l", "e", ">">>

\* the text of a lexeme
Render(x) ==
  IF x.k = "text" THEN x.s
  ELSE IF x.k = "style" THEN RenderStyle(x)
  ELSE IF x.k = "close" THEN <<"<", "/">> \o x.name \o <<">">>
  ELSE <<"<">> \o x.name \o RenderAttrs(x)
         \o (IF x.a.hasSrc THEN <<" ", "s", "r", "c", "=">> \o <<x.a.srcQuote>> \o x.a.src \o <<x.a.srcQuote>>
             ELSE <<>>)
         \o <<">">>

RECURSIVE RenderAll(_)
RenderAll(doc) == IF Len(doc) = 0 THEN <<>> ELSE Render(Head(doc)) \o RenderAll(Tail(doc))

HasSemicolon(x) == IF x.k = "style" THEN TRUE ELSE \E n \in 1..Len(Render(x)) : Render(x)[n] = ";"

\* The media-type group [^;]+ of the base64 pattern is not held inside the
\* attribute: from a data URI without ";" it runs on through the following
\* text to the first ";" of the document.  SwallowTo(doc, i, quote) is the
\* tag k > i, 0 when there is none, at which a match that starts in the src
\* of tag i ends: the first ";" after tag i's "data:" is the one before
\* "base64," in the src of tag k, which is written with the same quote.
SwallowTo(doc, i, quote) ==
  LET x  == doc[i]
      ks == {k \in (i + 1)..Len(doc) :
               /\ \A j \in (i + 1)..(k - 1) : ~HasSemicolon(doc[j])
               /\ doc[k].k = "open" /\ doc[k].a.hasSrc /\ doc[k].a.srcQuote = quote
               /\ \A n \in 1..Len(RenderAttrs(doc[k])) : RenderAttrs(doc[k])[n] # ";"
               /\ \E p \in 1..Len(doc[k].a.src) :
                    /\ \A n \in 1..(p - 1) : doc[k].a.src[n] # ";"
                    /\ OccursAt(Lower(doc[k].a.src), BASE64_COMMA, p)
                    /\ p + Len(BASE64_COMMA) <= Len(doc[k].a.src)}
  IN IF /\ x.k = "open" /\ x.a.hasSrc /\ x.a.srcQuote = quote
        /\ StartsWith(Lower(x.a.src), DATA_COLON)
        /\ \A n \in 1..Len(x.a.src) : x.a.src[n] # ";"
        /\ ks # {}
     THEN CHOOSE k \in ks : TRUE
     ELSE 0

\* the payload of the match that runs from the src of tag i into tag k
SwallowPayload(doc, i, k) ==
  LET src == doc[k].a.src
      p   == CHOOSE n \in 1..Len(src) : src[n] = ";" /\ \A j \in 1..(n - 1) : src[j] # ";"
      dec == b64decode(Drop(src, p + Len(BASE64_COMMA) - 1))
  IN [ok |-> dec.ok, raw |-> dec.raw,
      mime |-> Lower(Drop(doc[i].a.src, Len(DATA_COLON)) \o <<doc[i].a.srcQuote, ">">>
                       \o RenderAll(SubSeq(doc, i + 1, k - 1))
                       \o <<"<">> \o doc[k].name \o RenderAttrs(doc[k]) \o <<" ", "s", "r", "c", "=">>
                       \o <<doc[k].a.srcQuote>> \o SubSeq(src, 1, p - 1))]

\* one re.sub over the src attributes written with `quote`: _save_data_uri
\* or _save_svg_text_uri on every match, in text order.  The rewritten
\* document and directory are bound to their values before the scan goes on.
RECURSIVE SrcPass(_, _, _, _, _, _, _)
SrcPass(doc, i, fs, quote, text, sha1, public_assets) ==
  IF i > Len(doc) THEN [doc |-> doc, fs |-> fs]
  ELSE CHOOSE out \in
    {IF doc[i].k = "open" /\ doc[i].a.hasSrc /\ doc[i].a.srcQuote = quote /\ r.match /\ r.ok
     THEN CHOOSE o \in
            {SrcPass(d, i + 1, f, quote, text, sha1, public_assets) :
               d \in {[doc EXCEPT ![i].a.src = AssetUrl(r.raw, r.mime, sha1, public_assets),
                                  ![i].a.srcQuote = "\""]},
               f \in {_write_asset(r.raw, r.mime, sha1, fs)}} : TRUE
     ELSE IF k # 0
     THEN CHOOSE o \in
            {IF w.ok
             THEN CHOOSE q \in
                    {SrcPass(d, i + 1, f, quote, text, sha1, public_assets) :
                       d \in {SubSeq(doc, 1, i - 1)
                                \o <<[doc[i] EXCEPT !.a.src = AssetUrl(w.raw, w.mime, sha1, public_assets),
                                                    !.a.srcQuote = "\""]>>
                                \o SubSeq(doc, k + 1, Len(doc))},
                       f \in {_write_asset(w.raw, w.mime, sha1, fs)}} : TRUE
             ELSE SrcPass(doc, k + 1, fs, quote, text, sha1, public_assets) :
               w \in {SwallowPayload(doc, i, k)}} : TRUE
     ELSE SrcPass(doc, i + 1, fs, quote, text, sha1, public_assets) :
       r \in {RefPayload(doc[i].a.src, text)},
       k \in {IF text THEN 0 ELSE SwallowTo(doc, i, quote)}} : TRUE

URL_PAREN == <<"u", "r", "l", "(">>

Blank(c) == c \in {" ", "\n", "\t"}

\* the first position from i on in s whose character is not: blank
\* (blank = TRUE), or none of the double quote, the quote and ")"
RECURSIVE RunEnd(_, _, _)
RunEnd(s, i, blank) ==
  IF i > Len(s) THEN i
  ELSE IF (IF blank THEN Blank(s[i]) ELSE s[i] \notin {"\"", "'", ")"})
  THEN RunEnd(s, i + 1, blank)
  ELSE i

NoCssUrl == [ends |-> 0, from |-> 0, to |-> 0]

\* the rest of a url( ) match whose URI runs from u to e - 1
CssUrlTo(val, u, e, text) ==
  LET c == IF e <= Len(val) /\ val[e] \in {"\"", "'"} THEN e + 1 ELSE e
      z == RunEnd(val, c, TRUE)
  IN IF z <= Len(val) /\ val[z] = ")" /\ (\E uri \in {SubSeq(val, u, e - 1)} : RefPayload(uri, text).match)
     THEN [ends |-> z, from |-> u, to |-> e - 1]
     ELSE NoCssUrl

\* url( data-URI ) matched at position i of a declaration value: where the
\* URI starts and ends and where the match ends; ends = 0 when there is no
\* match at i.  Every url( of a value is closed and every data URI in it
\* carries a ";", so that a match stays inside its url().
CssUrlAt(val, i, text) ==
  IF ~OccursAtNoCase(val, URL_PAREN, i) THEN NoCssUrl
  ELSE CHOOSE m \in
         {CssUrlTo(val, u, RunEnd(val, u, FALSE), text) :
            u \in {LET j == RunEnd(val, i + Len(URL_PAREN), TRUE)
                   IN IF j <= Len(val) /\ val[j] \in {"\"", "'"} THEN j + 1 ELSE j}} : TRUE

\* the first position from i on at which url( occurs in val, case
\* ignored, Len(val) + 1 when there is none
RECURSIVE NextUrlParen(_, _)
NextUrlParen(val, i) ==
  IF i > Len(val) \/ OccursAtNoCase(val, URL_PAREN, i) THEN i ELSE NextUrlParen(val, i + 1)

\* one re.sub over a declaration value: _save_css_uri or _save_css_text_uri
\* on every match, left to right
RECURSIVE CssValuePass(_, _, _, _, _, _)
CssValuePass(val, i, fs, text, sha1, public_assets) ==
  CHOOSE out \in
    {IF n > Len(val) THEN [val |-> val, fs |-> fs]
     ELSE CHOOSE o \in
       {IF m.ends = 0 THEN CssValuePass(val, n + 1, fs, text, sha1, public_assets)
        ELSE IF ~r.ok THEN CssValuePass(val, m.ends + 1, fs, text, sha1, public_assets)
        ELSE CHOOSE q \in
          {CHOOSE t \in
             {CssValuePass(v, n + Len(new), f, text, sha1, public_assets) :
                v \in {SubSeq(val, 1, n - 1) \o new \o Drop(val, m.ends)}} : TRUE :
             new \in {URL_PAREN \o <<"\"">> \o AssetUrl(r.raw, r.mime, sha1, public_assets)
                        \o <<"\"", ")">>},
             f \in {_write_asset(r.raw, r.mime, sha1, fs)}} : TRUE :
          m \in {CssUrlAt(val, n, text)},
          r \in {LET at == CssUrlAt(val, n, text)
                 IN IF at.ends = 0 THEN [match |-> FALSE, ok |-> FALSE, raw |-> <<>>, mime |-> <<>>]
                    ELSE RefPayload(SubSeq(val, at.from, at.to), text)}} : TRUE :
       n \in {NextUrlParen(val, i)}} : TRUE

RECURSIVE CssRulesPass(_, _, _, _, _, _)
CssRulesPass(rules, n, fs, text, sha1, public_assets) ==
  IF n > Len(rules) THEN [rules |-> rules, fs |-> fs]
  ELSE CHOOSE out \in
    {CHOOSE o \in
       {CssRulesPass(rs, n + 1, v.fs, text, sha1, public_assets) :
          rs \in {[rules EXCEPT ![n].val = v.val]}} : TRUE :
       v \in {CssValuePass(rules[n].val, 1, fs, text, sha1, public_assets)}} : TRUE

\* one re.sub over the url() values of the style blocks, in text order
RECURSIVE CssPass(_, _, _, _, _, _)
CssPass(doc, i, fs, text, sha1, public_assets) ==
  IF i > Len(doc) THEN [doc |-> doc, fs |-> fs]
  ELSE IF doc[i].k = "style"
  THEN CHOOSE out \in
    {CHOOSE o \in
       {CssPass(d, i + 1, v.fs, text, sha1, public_assets) :
          d \in {[doc EXCEPT ![i].rules = v.rules]}} : TRUE :
       v \in {CssRulesPass(doc[i].rules, 1, fs, text, sha1, public_assets)}} : TRUE
  ELSE CssPass(doc, i + 1, fs, text, sha1, public_assets)

\* the six substitutions of _extract_data_uris, in their order, each on the
\* result of the one before
_extract_data_uris(doc, fs, sha1, public_assets) ==
  IF Len(doc) = 0 THEN [doc |-> doc, fs |-> fs]
  ELSE LET p1 == SrcPass(doc, 1, fs, "\"", FALSE, sha1, public_assets)
           p2 == CHOOSE r \in {SrcPass(p.doc, 1, p.fs, "'", FALSE, sha1, public_assets) : p \in {p1}} : TRUE
           p3 == CHOOSE r \in {SrcPass(p.doc, 1, p.fs, "\"", TRUE, sha1, public_assets) : p \in {p2}} : TRUE
           p4 == CHOOSE r \in {SrcPass(p.doc, 1, p.fs, "'", TRUE, sha1, public_assets) : p \in {p3}} : TRUE
           p5 == CHOOSE r \in {CssPass(p.doc, 1, p.fs, FALSE, sha1, public_assets) : p \in {p4}} : TRUE
       IN CHOOSE r \in {CssPass(p.doc, 1, p.fs, TRUE, sha1, public_assets) : p \in {p5}} : TRUE

(***************************************************************************)
(* State.  One variable group per part of the program; `pc` is the         *)
(* position of the operation being run.                                    *)
(***************************************************************************)
VARIABLES
  pc,               \* position in the operation under way
  classes,          \* _replace_class_attr: classes.split(), the attribute's tokens
  defined_classes,  \* _sanitize_html_output: DefinedClassSet
  normalized,       \* _replace_class_attr: the tokens written back
  ls_decl,          \* _clamp_letter_spacing: match.group(2), the declared number
  ls_tie_up,        \* _clamp_letter_spacing: how the float rounds an exact decimal tie
  ls_out,           \* _clamp_letter_spacing: the number written back
  layout,           \* the layout's screens in document order
  route_index,           \* _convert_nav_to_links: the route index built from the layout
  source,           \* _convert_nav_to_links: the document it was called with
  html,             \* the document text being transformed
  prev,             \* the document before the last pass
  anchors,          \* _protect_anchors: the stashed anchors
  assets_dir,       \* _extract_data_uris: the asset directory, its files and the writes made
  assets_before,    \* the files the asset directory held before the run
  public_assets,    \* _extract_data_uris: whether assets go under public/
  tree,             \* generate_code: the tree of the screen's layout, nodes in visiting order
  run,              \* which run of the pipeline over the document is under way
  first_out,        \* the text the first run returned
  screen_no,        \* convert_design: the screen of the layout being generated
  out_files,        \* convert_design: the pages written, file name and text, in order
  gen_text,         \* generate_code: text, then partial, the generated text so far
  attempt,          \* generate_code: the attempt of the retry loop under way
  continuations,    \* generate_code: the continuation requests made for the text
  delay,            \* generate_code: the seconds the next retry waits
  requests,         \* generate_code: the primary generation requests made so far
  slept,            \* generate_code: the waits made so far, the arguments of time.sleep
  msg,              \* generate_code: msg = str(e) of the last exception caught
  outcome,          \* generate_code: how the call ended, "" while it runs
  workers,          \* _write_asset: the state of each worker writing into the directory
  figma_image_cooldown,  \* image.py: _FIGMA_IMAGE_COOLDOWN, file key -> time of the mark (0: none)
  now,              \* time.time(), in ticks
  calls,            \* get_figma_images: the state of each caller's call
  marks,            \* the rate-limit answers to a last attempt so far: file key and time
  site_dir,         \* convert_design: the directory generated_site
  zip_file,         \* convert_design: the archive figma_site.zip
  reqs              \* convert_design: the state of each /convert request

tokVars == <<classes, defined_classes, normalized>>

lsVars == <<ls_decl, ls_tie_up, ls_out>>

navVars == <<layout, route_index, source, html, prev, anchors>>

assetVars == <<assets_dir, assets_before, public_assets>>

pipeVars == <<tree, run, first_out, screen_no, out_files>>

genVars == <<gen_text, attempt, continuations, outcome, delay, requests, slept, msg>>

coolVars == <<figma_image_cooldown, now, calls, marks>>

convVars == <<site_dir, zip_file, reqs>>

vars == <<pc, tokVars, lsVars, navVars, assetVars, pipeVars, genVars, workers, coolVars, convVars>>

CoolIdle == figma_image_cooldown = <<>> /\ now = 0 /\ calls = <<>> /\ marks = <<>>

ConvIdle == site_dir = <<>> /\ zip_file = <<>> /\ reqs = <<>>

GenIdle ==
  /\ gen_text = <<>> /\ attempt = 0 /\ continuations = 0 /\ outcome = ""
  /\ delay = 0 /\ requests = 0 /\ slept = <<>> /\ msg = <<>>

WorkersIdle == workers = <<>>

PipeIdle == tree = <<>> /\ run = 0 /\ first_out = <<>> /\ screen_no = 0 /\ out_files = <<>>

NavIdle == layout = <<>> /\ route_index = <<>> /\ source = <<>> /\ html = <<>> /\ prev = <<>> /\ anchors = <<>>

EmptyDir == [files |-> <<>>, writes |-> <<>>]

AssetIdle == assets_dir = EmptyDir /\ assets_before = <<>> /\ public_assets = FALSE

LsIdle == ls_decl = <<>> /\ ls_tie_up = FALSE /\ ls_out = <<>>

(***************************************************************************)
(* ClassTokenRewriter applied to one class attribute.                      *)
(***************************************************************************)
MaxTokens == 2

TokenPool ==
  {<<"g", "a", "p", "-", "8">>,
   <<"g", "a", "p", "-", "3", "0">>,
   <<"p", "t", "-", "1", "5">>,
   <<"p", "-", "l", "-", "4", "1">>,
   <<"s", "p", "a", "c", "e", "-", "x", "-", "2", "7">>,
   <<"g", "a", "p", "-", "3", "0", "-", "5">>,
   <<"m", "-", "4">>,
   <<"h", "t", "m", "l">>,
   <<"w", "-", "1", "0", "0">>,
   <<"-", "t", "o", "p", "-", "1", "0">>,
   <<"h", "-", "2", "0", "p", "x">>,
   <<"t", "e", "x", "t", "-", "1", "8">>,
   <<"t", "r", "a", "c", "k", "i", "n", "g", "-", "[", "-", "1", ".", "5", "p", "x", "]">>,
   <<"t", "r", "a", "c", "k", "i", "n", "g", "-", "n", "e", "g", "-", "2">>,
   <<"b", "g", "-", "c", "u", "s", "t", "o", "m", "-", "g", "r", "a", "y", "-", "d", "a", "r", "k">>,
   <<"l", "e", "a", "d", "i", "n", "g", "-", "l", "i", "n", "e", "-", "h", "e", "i", "g", "h", "t", "-", "2", "0">>,
   <<"f", "l", "e", "x">>,
   <<"g", "a", "p", "-", "0", ".", "5">>}

DefinedPool ==
  {<<"g", "a", "p", "-", "3", "0">>,
   <<"t", "r", "a", "c", "k", "i", "n", "g", "-", "n", "1", "_", "5">>,
   <<"b", "g", "-", "c", "u", "s", "t", "o", "m", "-", "g", "r", "e", "y", "-", "d", "a", "r", "k">>,
   <<"w", "-", "1", "0", "0">>,
   <<"p", "-", "l", "-", "4", "1">>}

RECURSIVE SeqsUpTo(_, _)
SeqsUpTo(S, n) ==
  IF n = 0 THEN {<<>>}
  ELSE LET shorter == SeqsUpTo(S, n - 1)
       IN shorter \cup {Append(q, x) : q \in {r \in shorter : Len(r) = n - 1}, x \in S}

TokIdle == classes = <<>> /\ defined_classes = {} /\ normalized = <<>>

InitTokens ==
  /\ CoolIdle
  /\ ConvIdle
  /\ GenIdle
  /\ WorkersIdle
  /\ pc = "class_attr"
  /\ classes \in SeqsUpTo(TokenPool, MaxTokens) \ {<<>>}
  /\ defined_classes \in SUBSET DefinedPool
  /\ normalized = <<>>
  /\ LsIdle
  /\ NavIdle
  /\ AssetIdle
  /\ PipeIdle

ReplaceClassAttr ==
  /\ pc = "class_attr"
  /\ normalized' = _replace_class_attr(classes, defined_classes)
  /\ pc' = "class_attr_done"
  /\ UNCHANGED <<classes, defined_classes, lsVars, navVars, assetVars, pipeVars, genVars, workers, coolVars, convVars>>

NextTokens == ReplaceClassAttr

SpecTokens == InitTokens /\ [][NextTokens]_vars

\* position in `normalized` of the image of classes[i] (stray "html" tokens are dropped)
OutIndex(i) == Cardinality({j \in 1..i : classes[j] # HTML_TOKEN})

\* a spacing-family token with a bare numeric suffix: its prefix, or {} if it is none
SpacingFamily(t) == PrefixMatches(t, SpacingPrefixes, FALSE)

SpacingValue(t) ==
  LET prefix == CHOOSE q \in SpacingFamily(t) : TRUE IN Drop(t, Len(prefix) + 1)

\* C3: a spacing-family token with a bare numeric suffix that is not in
\* DefinedClassSet is left unchanged when the number is in the default
\* spacing scale, and becomes the bracketed pixel form when it is not.
C3_SpacingScaleRespected ==
  pc = "class_attr_done" =>
    \A i \in 1..Len(classes) :
      LET t == classes[i] IN
        (SpacingFamily(t) # {} /\ t \notin defined_classes) =>
          LET prefix == CHOOSE q \in SpacingFamily(t) : TRUE
              value  == SpacingValue(t)
              out    == normalized[OutIndex(i)]
          IN IF value \in VALID_SPACING_SCALE
             THEN out = t
             ELSE out = Bracketed(prefix, _normalize_dash_decimal(value))

(***************************************************************************)
(* TextPreprocessor: the letter-spacing clamp.  A declared number is the   *)
(* text between "letter-spacing:" and "px"; numbers are held in fixed      *)
(* point, LsScale units to the pixel.                                      *)
(***************************************************************************)
MaxFracDigits == 4

LsScale == Pow10(MaxFracDigits)

\* -?\d+(?:\.\d+)? : what group 2 of the clamp's pattern accepts before "px"
LsPatternMatches(v) ==
  IF StartsWith(v, <<"-">>) THEN IsDecNumber(Tail(v)) ELSE IsDecNumber(v)

\* float(match.group(2)), in fixed point
LsNumber(v) ==
  LET signed == Len(v) >= 1 /\ v[1] = "-"
      body   == IF signed THEN Tail(v) ELSE v
      dots   == {i \in 1..Len(body) : body[i] = "."}
      dot    == IF dots = {} THEN Len(body) + 1 ELSE CHOOSE i \in dots : TRUE
      whole  == Take(body, dot - 1)
      frac   == Drop(body, dot)
      mag    == NatOf(whole) * LsScale + NatOf(frac) * Pow10(MaxFracDigits - Len(frac))
  IN IF signed THEN -mag ELSE mag

\* str.rstrip("0")
RECURSIVE RStripZeros(_)
RStripZeros(s) ==
  IF Len(s) >= 1 /\ s[Len(s)] = "0" THEN RStripZeros(Take(s, Len(s) - 1)) ELSE s

\* str.rstrip(".")
RECURSIVE RStripDots(_)
RStripDots(s) ==
  IF Len(s) >= 1 /\ s[Len(s)] = "." THEN RStripDots(Take(s, Len(s) - 1)) ELSE s

\* f"{x:.3f}" of the fixed-point x; negative marks a value below zero (the
\* float keeps its sign when it rounds to zero).  tieUp says which way the
\* binary float falls when the decimal text is exactly halfway.
Format3f(x, negative, tieUp) ==
  LET unit   == LsScale \div 1000
      mag    == Abs(x)
      q      == mag \div unit
      r      == mag % unit
      thou   == IF 2 * r > unit \/ (2 * r = unit /\ tieUp) THEN q + 1 ELSE q
  IN (IF negative THEN <<"-">> ELSE <<>>)
       \o NatStr(thou \div 1000) \o <<".">> \o PadStr(thou % 1000, 3)

\* _clamp_letter_spacing: the text that replaces match.group(2)
_clamp_letter_spacing(v, tieUp) ==
  LET value   == LsNumber(v)
      limit   == 10 * LsScale
      clamped == IF Abs(value) <= limit THEN value
                 ELSE IF value < -limit THEN -limit ELSE limit
  IN IF clamped % LsScale = 0
     THEN (IF clamped < 0 THEN <<"-">> ELSE <<>>) \o NatStr(Abs(clamped) \div LsScale)
     ELSE RStripDots(RStripZeros(Format3f(clamped, clamped < 0, tieUp)))

\* re.sub over one declaration: text the pattern does not match stays
ClampDeclaration(v, tieUp) ==
  IF LsPatternMatches(v) THEN _clamp_letter_spacing(v, tieUp) ELSE v

LsWholePool == {<<"0">>, <<"1">>, <<"9">>, <<"1", "0">>, <<"1", "1">>, <<"2", "5", "0">>}

LsFracDigitPool == {"0", "5", "6"}

LsDeclPool ==
  {sign \o whole \o frac :
     sign \in {<<>>, <<"-">>},
     whole \in LsWholePool,
     frac \in {<<>>} \cup {<<".">> \o f : f \in SeqsUpTo(LsFracDigitPool, MaxFracDigits) \ {<<>>}}}

InitClamp ==
  /\ CoolIdle
  /\ ConvIdle
  /\ GenIdle
  /\ WorkersIdle
  /\ pc = "clamp"
  /\ ls_decl \in LsDeclPool
  /\ ls_tie_up \in BOOLEAN
  /\ ls_out = <<>>
  /\ TokIdle
  /\ NavIdle
  /\ AssetIdle
  /\ PipeIdle

ClampLetterSpacing ==
  /\ pc = "clamp"
  /\ ls_out' = ClampDeclaration(ls_decl, ls_tie_up)
  /\ pc' = "clamp_done"
  /\ UNCHANGED <<ls_decl, ls_tie_up, tokVars, navVars, assetVars, pipeVars, genVars, workers, coolVars, convVars>>

NextClamp == ClampLetterSpacing

SpecClamp == InitClamp /\ [][NextClamp]_vars

\* C4: after the clamp every declared letter-spacing value lies in
\* [-10, 10]; a value already in that interval is the same number as
\* before, and a value outside it is exactly -10 or 10 by its sign.
C4_ClampedAndInRangeKept ==
  pc = "clamp_done" =>
    LET before == LsNumber(ls_decl)
        after  == LsNumber(ls_out)
        limit  == 10 * LsScale
    IN /\ -limit <= after /\ after <= limit
       /\ Abs(before) <= limit => after = before
       /\ before > limit => after = limit
       /\ before < -limit => after = -limit

(***************************************************************************)
(* NavigationLinker: _convert_nav_to_links, one step per statement of its  *)
(* body (button pass, div pass, anchor protection, paragraph pass,         *)
(* anchor restoration).                                                    *)
(***************************************************************************)
MaxScreens == 2

ScreenNamePool ==
  {<<>>, <<"C", "o", "n", "t", "a", "c", "t">>,
   <<"C", "o", "n", "t", "a", "c", "t", " ", "U", "s">>,
   <<"C", "o", "n", "t", "a", "c", "t", "U", "s">>,
   <<"C", "o", "n", "t", "a", "c", "t", " ", "S", "a", "l", "e", "s", " ", "T", "e", "a", "m">>}

LabelPool ==
  {<<"C", "o", "n", "t", "a", "c", "t", " ", "u", "s">>,
   <<"G", "e", "t", " ", "i", "n", " ", "t", "o", "u", "c", "h">>,
   <<"C", "o", "n", "t", "a", "c", "t", " ", "u", "s", " ", "n", "o", "w">>,
   <<"U", "s">>,
   <<"T", "e", "a", "m">>}

\* layouts of up to MaxScreens screens with distinct names
Layouts ==
  {[i \in 1..Len(q) |-> [screen |-> q[i]]] :
     q \in {r \in SeqsUpTo(ScreenNamePool, MaxScreens) : Len(r) >= 1 /\ Cardinality(Range(r)) = Len(r)}}

X_HTML == <<"x", ".", "h", "t", "m", "l">>

MORE == <<"m", "o", "r", "e">>

\* the element shapes a generated page holds around a label
NavBlocks(l) ==
  {<<OpenTag(BUTTON, [ClassAttr(<<FLEX>>) EXCEPT !.hasType = TRUE]), TextRun(l), CloseTag(BUTTON)>>,
   <<OpenTag(DIV, NoAttrs), TextRun(l), CloseTag(DIV)>>,
   <<OpenTag(DIV, NoAttrs), OpenTag(DIV, NoAttrs), TextRun(l), CloseTag(DIV), CloseTag(DIV)>>,
   <<OpenTag(<<"p">>, NoAttrs), TextRun(l), CloseTag(<<"p">>)>>,
   <<OpenTag(<<"p">>, NoAttrs), TextRun(l \o <<" ">>),
     OpenTag(<<"a">>, HrefAttr(X_HTML)), TextRun(MORE), CloseTag(<<"a">>), CloseTag(<<"p">>)>>,
   <<OpenTag(<<"a">>, HrefAttr(X_HTML)), OpenTag(BUTTON, NoAttrs), TextRun(l),
     CloseTag(BUTTON), CloseTag(<<"a">>)>>,
   <<OpenTag(<<"a">>, HrefAttr(X_HTML)), OpenTag(<<"p">>, NoAttrs), TextRun(l),
     CloseTag(<<"p">>), CloseTag(<<"a">>)>>,
   <<OpenTag(<<"s", "v", "g">>, NoAttrs), OpenTag(<<"p", "a", "t", "h">>, NoAttrs),
     CloseTag(<<"s", "v", "g">>), OpenTag(<<"p">>, NoAttrs), TextRun(l), CloseTag(<<"p">>)>>}

NavBlockPool == UNION {NavBlocks(l) : l \in LabelPool}

\* pages of one element, and pages of a paragraph followed by a button
NavDocs ==
  NavBlockPool \cup
  {b1 \o b2 : b1 \in {b \in NavBlockPool : b[1].name = <<"p">> /\ Len(b) = 3},
              b2 \in {b \in NavBlockPool : b[1].name = BUTTON}}

InitNav ==
  /\ CoolIdle
  /\ ConvIdle
  /\ GenIdle
  /\ WorkersIdle
  /\ pc = "nav_routes"
  /\ layout \in Layouts
  /\ route_index = <<>>
  /\ source \in NavDocs
  /\ html = source
  /\ prev = source
  /\ anchors = <<>>
  /\ TokIdle
  /\ LsIdle
  /\ AssetIdle
  /\ PipeIdle

BuildRouteIndex ==
  /\ pc = "nav_routes"
  /\ route_index' = _build_route_index(layout)
  /\ pc' = "nav_buttons"
  /\ UNCHANGED <<layout, source, html, prev, anchors, tokVars, lsVars, assetVars, pipeVars, genVars, workers, coolVars, convVars>>

NavEarlyReturn ==
  /\ pc = "nav_buttons"
  /\ (Len(html) = 0 \/ Len(route_index) = 0)
  /\ pc' = "nav_done"
  /\ UNCHANGED <<layout, route_index, source, html, prev, anchors, tokVars, lsVars, assetVars, pipeVars, genVars, workers, coolVars, convVars>>

ConvertButtons ==
  /\ pc = "nav_buttons"
  /\ Len(html) # 0 /\ Len(route_index) # 0
  /\ prev' = html
  /\ html' = _convert_tag(BUTTON, html, TRUE, route_index)
  /\ pc' = "nav_divs"
  /\ UNCHANGED <<layout, route_index, source, anchors, tokVars, lsVars, assetVars, pipeVars, genVars, workers, coolVars, convVars>>

ConvertDivs ==
  /\ pc = "nav_divs"
  /\ prev' = html
  /\ html' = _convert_tag(DIV, html, FALSE, route_index)
  /\ pc' = "nav_protect"
  /\ UNCHANGED <<layout, route_index, source, anchors, tokVars, lsVars, assetVars, pipeVars, genVars, workers, coolVars, convVars>>

ProtectAnchors ==
  /\ pc = "nav_protect"
  /\ prev' = html
  /\ html' = _protect_anchors(html).protected
  /\ anchors' = _protect_anchors(html).anchors
  /\ pc' = "nav_paragraphs"
  /\ UNCHANGED <<layout, route_index, source, tokVars, lsVars, assetVars, pipeVars, genVars, workers, coolVars, convVars>>

ConvertParagraphTags ==
  /\ pc = "nav_paragraphs"
  /\ prev' = html
  /\ html' = _convert_tag(<<"p">>, html, TRUE, route_index)
  /\ pc' = "nav_restore"
  /\ UNCHANGED <<layout, route_index, source, anchors, tokVars, lsVars, assetVars, pipeVars, genVars, workers, coolVars, convVars>>

RestoreAnchors ==
  /\ pc = "nav_restore"
  /\ prev' = html
  /\ html' = _restore_anchors(html, anchors)
  /\ pc' = "nav_done"
  /\ UNCHANGED <<layout, route_index, source, anchors, tokVars, lsVars, assetVars, pipeVars, genVars, workers, coolVars, convVars>>

NextNav ==
  \/ BuildRouteIndex
  \/ NavEarlyReturn
  \/ ConvertButtons
  \/ ConvertDivs
  \/ ProtectAnchors
  \/ ConvertParagraphTags
  \/ RestoreAnchors

SpecNav == InitNav /\ [][NextNav]_vars

\* the steps compose to the function
NavStepsAgree == pc = "nav_done" => html = _convert_nav_to_links(source, layout)

\* the pass that has just run, when one has: its tag and its allow_nested_div
PassTag == IF pc = "nav_divs" THEN BUTTON ELSE IF pc = "nav_protect" THEN DIV ELSE <<"p">>

PassAllowsNestedDiv == pc # "nav_protect"

AfterPass == pc \in {"nav_divs", "nav_protect", "nav_restore"}

\* the elements the pass evaluated for a route: those its pattern matched
\* and its two guards (nested div, existing link) let through
EvaluatedMatches ==
  LET ms == TagMatches(PassTag, prev, 1)
  IN {ms[i] : i \in {n \in 1..Len(ms) :
        LET inner == SubSeq(prev, ms[n].open + 1, ms[n].close - 1)
        IN /\ (PassAllowsNestedDiv \/ ~HasOpenStarting(inner, DIV))
           /\ ~HasOpenStarting(inner, <<"a">>)
           /\ MatchLabel(prev, ms[n]) # <<>>}}

\* the element m was rewritten into a link to `file`
LinkedTo(m, file) ==
  /\ html[m.open].k = "open"
  /\ StartsWith(html[m.open].name, <<"a">>)
  /\ html[m.open].a.hasHref
  /\ html[m.open].a.href = file
  /\ html[m.close] = CloseTag(<<"a">>)

LeftAlone(m) == html[m.open] = prev[m.open] /\ html[m.close] = prev[m.close]

SharesNoStem(label) == \A i \in 1..Len(route_index) : StemSet(label) \cap route_index[i].tokens = {}

ExactIndexes(label) == {i \in 1..Len(route_index) : route_index[i].norm = _norm(label)}

\* the button, div and p elements of doc that hold text only
TextElements(doc) ==
  {m \in [open : 1..Len(doc), close : 1..Len(doc)] :
     /\ m.open < m.close
     /\ doc[m.open].k = "open"
     /\ doc[m.open].name \in {BUTTON, DIV, <<"p">>}
     /\ doc[m.close] = CloseTag(doc[m.open].name)
     /\ \A k \in (m.open + 1)..(m.close - 1) : doc[k].k = "text"}

\* position i of doc lies inside an anchor
InsideAnchor(doc, i) ==
  \E a \in 1..(i - 1) :
    /\ doc[a].k = "open" /\ doc[a].name = <<"a">>
    /\ \A k \in (a + 1)..(i - 1) : doc[k] # CloseTag(<<"a">>)

\* C6: a button, div or p element outside any link whose label, normalized,
\* equals a route's normalized name is linked to the file of (the earliest)
\* such route, whatever a fuzzy score would have chosen; one whose label
\* equals no normalized name and shares no stem with any route is left
\* unchanged.
C6_ExactLabelLinked ==
  pc = "nav_done" =>
    \A m \in TextElements(source) :
      LET label == MatchLabel(source, m)
          first == CHOOSE i \in ExactIndexes(label) : \A j \in ExactIndexes(label) : i <= j
      IN (label # <<>> /\ ~InsideAnchor(source, m.open)) =>
           /\ ExactIndexes(label) # {} =>
                /\ html[m.open].k = "open"
                /\ html[m.open].name = <<"a">>
                /\ html[m.open].a.hasHref
                /\ html[m.open].a.href = route_index[first].file
                /\ html[m.close] = CloseTag(<<"a">>)
           /\ (ExactIndexes(label) = {} /\ SharesNoStem(label)) =>
                html[m.open] = source[m.open] /\ html[m.close] = source[m.close]

\* |label stems /\ route stems| and |route stems| of route i
Shared(label, i) == Cardinality(StemSet(label) \cap route_index[i].tokens)

Size(i) == Cardinality(route_index[i].tokens)

\* route i has the maximum score, and no earlier route has it
IsEarliestBest(label, i) ==
  /\ \A j \in 1..Len(route_index) : Shared(label, j) * Size(i) <= Shared(label, i) * Size(j)
  /\ \A j \in 1..(i - 1) : Shared(label, j) * Size(i) < Shared(label, i) * Size(j)

\* C7: with no exact normalized match, the element is linked to the file of
\* the earliest route of maximum score |label stems /\ route stems| /
\* |route stems| when that maximum is at least 0.5, and is not linked when
\* the maximum is below 0.5.
C7_FuzzyBestAtLeastHalf ==
  AfterPass =>
    \A m \in EvaluatedMatches :
      LET label == MatchLabel(prev, m) IN
        ExactIndexes(label) = {} =>
          \A i \in 1..Len(route_index) :
            IsEarliestBest(label, i) =>
              IF 2 * Shared(label, i) >= Size(i)
              THEN LinkedTo(m, route_index[i].file)
              ELSE LeftAlone(m)

\* a tie at the top between two route_index with different files, resolved to the earlier
C7_Witness ==
  /\ AfterPass
  /\ \E m \in EvaluatedMatches :
       LET label == MatchLabel(prev, m) IN
         /\ ExactIndexes(label) = {}
         /\ \E i, j \in 1..Len(route_index) :
              /\ i < j
              /\ IsEarliestBest(label, i)
              /\ Shared(label, j) * Size(i) = Shared(label, i) * Size(j)
              /\ route_index[i].file # route_index[j].file
              /\ LinkedTo(m, route_index[i].file)

\* an anchor opens inside an open anchor
RECURSIVE NestedAnchorFrom(_, _, _)
NestedAnchorFrom(doc, i, depth) ==
  IF i > Len(doc) THEN FALSE
  ELSE IF doc[i].k = "open" /\ Lower(doc[i].name) = <<"a">>
  THEN depth >= 1 \/ NestedAnchorFrom(doc, i + 1, depth + 1)
  ELSE IF doc[i].k = "close" /\ Lower(doc[i].name) = <<"a">>
  THEN NestedAnchorFrom(doc, i + 1, IF depth > 0 THEN depth - 1 ELSE 0)
  ELSE NestedAnchorFrom(doc, i + 1, depth)

HasNestedAnchor(doc) == NestedAnchorFrom(doc, 1, 0)

\* C8: when no anchor is nested inside another anchor in the document
\* NavigationLinker is given, none is nested in the document it returns.
C8_NoNestedAnchors ==
  pc = "nav_done" => (~HasNestedAnchor(source) => ~HasNestedAnchor(html))

\* C27: NavigationLinker rewrites only elements whose tag name is exactly
\* button, div or p: an element whose tag name merely starts with one of
\* those names is never taken as the opening tag of a converted element, so
\* its tag and attributes are unchanged in the output.
C27_OnlyExactTagNames ==
  pc = "nav_done" =>
    \A i \in 1..Len(source) :
      (/\ source[i].k = "open"
       /\ \E tag \in {BUTTON, DIV, <<"p">>} :
            StartsWith(Lower(source[i].name), tag) /\ Lower(source[i].name) # tag)
        => (i <= Len(html) /\ html[i] = source[i])

(***************************************************************************)
(* Color backfill: _ensure_missing_color_utilities on a page.              *)
(***************************************************************************)
ColorTokenPool ==
  {<<"b", "g", "-", "c", "u", "s", "t", "o", "m", "-", "f", "f", "0", "0", "0", "0">>,
   <<"t", "e", "x", "t", "-", "c", "u", "s", "t", "o", "m", "-", "F", "F", "F">>,
   <<"b", "o", "r", "d", "e", "r", "-", "c", "u", "s", "t", "o", "m", "-", "1", "1", "2", "2", "3", "3", "8", "0">>,
   <<"h", "o", "v", "e", "r", ":", "b", "g", "-", "c", "u", "s", "t", "o", "m", "-", "f", "f", "0", "0", "0", "0">>,
   <<"b", "g", "-", "c", "u", "s", "t", "o", "m", "-", "g", "r", "a", "y", "-", "d", "a", "r", "k">>,
   FLEX}

ColorStylePool ==
  {<<>>,
   <<StyleBlock(TRUE, <<Rule(<<"b", "g", "-", "c", "u", "s", "t", "o", "m", "-", "f", "f", "0", "0", "0", "0">>, BACKGROUND_COLOR, <<"#", "f", "f", "0", "0", "0", "0">>)>>)>>,
   <<StyleBlock(TRUE, <<Rule(<<"t", "e", "x", "t", "-", "c", "u", "s", "t", "o", "m", "-", "F", "F", "F">>, COLOR, <<"#", "f", "f", "f">>),
                        Rule(<<"b", "o", "r", "d", "e", "r", "-", "c", "u", "s", "t", "o", "m", "-", "1", "1", "2", "2", "3", "3", "8", "0">>, BORDER_COLOR, <<"#", "1", "1", "2", "2", "3", "3">>)>>)>>,
   <<StyleBlock(FALSE, <<Rule(<<"b", "g", "-", "c", "u", "s", "t", "o", "m", "-", "f", "f", "0", "0", "0", "0">>, BACKGROUND_COLOR, <<"#", "f", "f", "0", "0", "0", "0">>)>>)>>}

HTML == <<"h", "t", "m", "l">>

BODY == <<"b", "o", "d", "y">>

\* a page: html, an optional head, its style blocks, a body with one element
ColorDoc(head, styles, tokens) ==
  <<OpenTag(HTML, NoAttrs)>>
    \o (IF head THEN <<OpenTag(HEAD, NoAttrs)>> \o styles \o <<CloseTag(HEAD)>> ELSE styles)
    \o <<OpenTag(BODY, NoAttrs), OpenTag(DIV, ClassAttr(tokens)), TextRun(MORE), CloseTag(DIV),
         CloseTag(BODY), CloseTag(HTML)>>

ColorDocs ==
  {ColorDoc(head, styles, tokens) :
     head \in BOOLEAN, styles \in ColorStylePool,
     tokens \in SeqsUpTo(ColorTokenPool, MaxTokens) \ {<<>>}}

InitColor ==
  /\ CoolIdle
  /\ ConvIdle
  /\ GenIdle
  /\ WorkersIdle
  /\ pc = "color"
  /\ source \in ColorDocs
  /\ html = source
  /\ layout = <<>> /\ route_index = <<>> /\ prev = <<>> /\ anchors = <<>>
  /\ TokIdle
  /\ LsIdle
  /\ AssetIdle
  /\ PipeIdle

EnsureMissingColorUtilities ==
  /\ pc = "color"
  /\ html' = _ensure_missing_color_utilities(html)
  /\ pc' = "color_done"
  /\ UNCHANGED <<layout, route_index, source, prev, anchors, tokVars, lsVars, assetVars, pipeVars, genVars, workers, coolVars, convVars>>

NextColor == EnsureMissingColorUtilities

SpecColor == InitColor /\ [][NextColor]_vars

\* the custom color class names the document references
ReferencedColors(doc) == {ColorClassName(m) : m \in Range(ColorMatches(doc))}

\* the rules of the utility-style blocks of doc whose selector is class c
RulesFor(doc, c) ==
  UNION {{<<i, r>> : r \in {q \in 1..Len(doc[i].rules) : doc[i].rules[q].sel = c}} :
         i \in {n \in 1..Len(doc) : doc[n].k = "style" /\ doc[n].a.hasType}}

\* the color a 3, 6 or 8 digit payload names
DecodedColor(hex) ==
  LET h == Lower(hex) IN
    IF Len(h) = 3 THEN <<"#", h[1], h[1], h[2], h[2], h[3], h[3]>>
    ELSE IF Len(h) = 6 THEN <<"#">> \o h
    ELSE <<"r", "g", "b", "a", "(">> \o NatStr(HexByte(SubSeq(h, 1, 2))) \o <<",", " ">>
           \o NatStr(HexByte(SubSeq(h, 3, 4))) \o <<",", " ">>
           \o NatStr(HexByte(SubSeq(h, 5, 6))) \o <<",", " ">>
           \o Alpha3f(HexByte(SubSeq(h, 7, 8))) \o <<")">>

\* C5: every referenced custom color class that DefinedClassSet lacks has
\* exactly one rule in the output, injected by the backfill, whose property
\* is color / background-color / border-color by the class's kind and
\* whose value is the decoded color; and when every referenced class is
\* defined the document is returned unchanged.
C5_ColorBackfill ==
  pc = "color_done" =>
    /\ \A m \in Range(ColorMatches(source)) :
         LET c == ColorClassName(m) IN
           c \notin _extract_defined_classes(source) =>
             /\ Cardinality(RulesFor(html, c)) = 1
             /\ RulesFor(source, c) = {}
             /\ \A p \in RulesFor(html, c) :
                  /\ html[p[1]].rules[p[2]].prop =
                       (IF m.kind = TEXT THEN COLOR
                        ELSE IF m.kind = BG THEN BACKGROUND_COLOR ELSE BORDER_COLOR)
                  /\ html[p[1]].rules[p[2]].val = DecodedColor(m.hex)
    /\ ReferencedColors(source) \subseteq _extract_defined_classes(source) => html = source

\* an undefined class referenced twice got its one rule
C5_Witness ==
  /\ pc = "color_done"
  /\ \E i, j \in 1..Len(ColorMatches(source)) :
       /\ i < j
       /\ ColorMatches(source)[i] = ColorMatches(source)[j]
       /\ ColorClassName(ColorMatches(source)[i]) \notin _extract_defined_classes(source)
       /\ Cardinality(RulesFor(html, ColorClassName(ColorMatches(source)[i]))) = 1


(***************************************************************************)
(* DataURIExternalizer applied to one document and one asset directory.    *)
(***************************************************************************)
MaxRefs == 2

IMG == <<"i", "m", "g">>

PNG_BYTES == <<1, 2, 3>>

PNG2_BYTES == <<1, 2>>

SVG_BYTES == UnquoteBytes(<<"%", "3", "C", "s", "v", "g", "/", "%", "3", "E">>)

STALE_BYTES == <<115, 116, 97, 108, 101>>

EMPTY_BYTES == <<>>

\* hashlib.sha1(raw).hexdigest()[:16] of the payloads the references carry
Sha1Hex16 ==
  [raw \in {PNG_BYTES, PNG2_BYTES, SVG_BYTES, STALE_BYTES, EMPTY_BYTES} |->
     IF raw = EMPTY_BYTES THEN <<"d", "a", "3", "9", "a", "3", "e", "e", "5", "e", "6", "b", "4", "b", "0", "d">>
     ELSE IF raw = PNG_BYTES THEN <<"7", "0", "3", "7", "8", "0", "7", "1", "9", "8", "c", "2", "2", "a", "7", "d">>
     ELSE IF raw = PNG2_BYTES THEN <<"0", "c", "a", "6", "2", "3", "e", "2", "8", "5", "5", "f", "2", "c", "7", "5">>
     ELSE IF raw = SVG_BYTES THEN <<"1", "c", "3", "b", "a", "3", "b", "8", "1", "3", "e", "1", "0", "8", "0", "e">>
     ELSE <<"a", "4", "e", "9", "7", "6", "a", "3", "d", "3", "f", "c", "6", "d", "0", "b">>]

RefKinds ==
  {"png", "jpeg", "png_single", "png_other", "css_png", "svg_utf8", "svg_bare", "png_bad", "png_junk", "file"}

\* the n-th reference of a document, named r<n> by its class or selector
RefName(n) == <<"r">> \o NatStr(n)

RefUriOf(kind) ==
  IF kind = "png" THEN <<"d", "a", "t", "a", ":", "i", "m", "a", "g", "e", "/", "p", "n", "g", ";", "b", "a", "s", "e", "6", "4", ",", "A", "Q", "I", "D">>
  ELSE IF kind = "jpeg" THEN <<"d", "a", "t", "a", ":", "i", "m", "a", "g", "e", "/", "j", "p", "e", "g", ";", "b", "a", "s", "e", "6", "4", ",", "A", "Q", "I", "D">>
  ELSE IF kind = "png_single" THEN <<"d", "a", "t", "a", ":", "I", "M", "A", "G", "E", "/", "P", "N", "G", ";", "b", "a", "s", "e", "6", "4", ",", "A", "Q", "I", "D">>
  ELSE IF kind = "png_other" THEN <<"d", "a", "t", "a", ":", "i", "m", "a", "g", "e", "/", "p", "n", "g", ";", "b", "a", "s", "e", "6", "4", ",", "A", "Q", "I", "=">>
  ELSE IF kind = "css_png" THEN <<"d", "a", "t", "a", ":", "i", "m", "a", "g", "e", "/", "p", "n", "g", ";", "b", "a", "s", "e", "6", "4", ",", "A", "Q", "I", "D">>
  ELSE IF kind = "svg_utf8" THEN <<"d", "a", "t", "a", ":", "i", "m", "a", "g", "e", "/", "s", "v", "g", "+", "x", "m", "l", ";", "u", "t", "f", "8", ",", "%", "3", "C", "s", "v", "g", "/", "%", "3", "E">>
  ELSE IF kind = "svg_bare" THEN <<"d", "a", "t", "a", ":", "i", "m", "a", "g", "e", "/", "s", "v", "g", "+", "x", "m", "l", ",", "%", "3", "C", "s", "v", "g", "/", "%", "3", "E">>
  ELSE IF kind = "png_junk" THEN <<"d", "a", "t", "a", ":", "i", "m", "a", "g", "e", "/", "p", "n", "g", ";", "b", "a", "s", "e", "6", "4", ",", "!", "!", "!", "!">>
  ELSE IF kind = "png_bad" THEN <<"d", "a", "t", "a", ":", "i", "m", "a", "g", "e", "/", "p", "n", "g", ";", "b", "a", "s", "e", "6", "4", ",", "A", "Q">>
  ELSE <<"a", ".", "p", "n", "g">>

AssetRef(n, kind) ==
  IF kind = "css_png"
  THEN StyleBlock(TRUE, <<Rule(RefName(n), <<"b", "a", "c", "k", "g", "r", "o", "u", "n", "d", "-", "i", "m", "a", "g", "e">>,
                               URL_PAREN \o RefUriOf(kind) \o <<")">>)>>)
  ELSE OpenTag(IMG, [SrcAttr(RefUriOf(kind), IF kind = "png_single" THEN "'" ELSE "\"")
                       EXCEPT !.hasClass = TRUE, !.cls = <<RefName(n)>>])

\* A data URI without ";" is followed only by double-quoted src attributes:
\* its match then ends inside the document's tags.
AssetDocs ==
  {[n \in 1..Len(ks) |-> AssetRef(n, ks[n])] :
     ks \in {q \in SeqsUpTo(RefKinds, MaxRefs) \ {<<>>} :
               \A i, j \in 1..Len(q) :
                 (i < j /\ q[i] = "svg_bare") => q[j] \notin {"png_single", "css_png"}}}

\* the directory before the run: empty, holding the asset an earlier page
\* left, or holding other bytes under that asset's name
AssetDirs ==
  LET name == AssetFilename(PNG_BYTES, <<"i", "m", "a", "g", "e", "/", "p", "n", "g">>, Sha1Hex16)
  IN {<<>>, [n \in {name} |-> PNG_BYTES], [n \in {name} |-> STALE_BYTES]}

InitAssets ==
  /\ CoolIdle
  /\ ConvIdle
  /\ GenIdle
  /\ WorkersIdle
  /\ pc = "assets"
  /\ source \in AssetDocs
  /\ html = source
  /\ assets_before \in AssetDirs
  /\ assets_dir = [files |-> assets_before, writes |-> <<>>]
  /\ public_assets \in BOOLEAN
  /\ layout = <<>> /\ route_index = <<>> /\ prev = <<>> /\ anchors = <<>>
  /\ TokIdle
  /\ LsIdle
  /\ PipeIdle

ExtractDataUris ==
  /\ pc = "assets"
  /\ \E r \in {_extract_data_uris(html, assets_dir, Sha1Hex16, public_assets)} :
       html' = r.doc /\ assets_dir' = r.fs
  /\ pc' = "assets_done"
  /\ UNCHANGED <<layout, route_index, source, prev, anchors, tokVars, lsVars, assets_before, public_assets, pipeVars, genVars, workers, coolVars, convVars>>

NextAssets == ExtractDataUris

SpecAssets == InitAssets /\ [][NextAssets]_vars

\* the name a reference lexeme carries
RefIdent(x) == IF x.k = "style" THEN x.rules[1].sel ELSE x.a.cls[1]

\* the URI a reference lexeme carries: the src, or what url( ) encloses
RefUri(x) ==
  IF x.k # "style" THEN x.a.src
  ELSE LET v == x.rules[1].val
           inner == SubSeq(v, Len(URL_PAREN) + 1, Len(v) - 1)
       IN IF Len(inner) >= 2 /\ inner[1] = "\"" THEN SubSeq(inner, 2, Len(inner) - 1) ELSE inner

\* the payload a reference's own URI carries, by its own grammar
OwnPayload(uri) ==
  IF RefPayload(uri, FALSE).match THEN RefPayload(uri, FALSE) ELSE RefPayload(uri, TRUE)

\* the pairs <<i, j>>: reference i of the source is lexeme j of the output
\* and was rewritten to a path under the asset directory
Rewritten ==
  {p \in (1..Len(source)) \X (1..Len(html)) :
     /\ RefIdent(source[p[1]]) = RefIdent(html[p[2]])
     /\ RefUri(html[p[2]]) # RefUri(source[p[1]])}

\* the file name a rewritten reference points to
PathFile(uri) == Drop(uri, Len(UrlPrefix(public_assets)) + 1)

\* C10: after externalization the file at every rewritten reference's path
\* holds the decoded bytes of the payload the reference carried, whatever
\* the directory held before and whatever else was externalized in the run.
C10_RoundTrip ==
  pc = "assets_done" =>
    \A p \in Rewritten :
      LET own == OwnPayload(RefUri(source[p[1]]))
          f   == PathFile(RefUri(html[p[2]]))
      IN /\ own.match /\ own.ok
         /\ f \in DOMAIN assets_dir.files
         /\ assets_dir.files[f] = own.raw

\* the payload the externalizer decoded for reference i of doc: that of the
\* match which starts in its src and ends in a later tag, else its own
DecodedFor(doc, i) ==
  LET k == IF doc[i].k = "open" THEN SwallowTo(doc, i, "\"") ELSE 0
  IN IF k # 0 /\ ~RefPayload(doc[i].a.src, FALSE).match /\ SwallowPayload(doc, i, k).ok
     THEN SwallowPayload(doc, i, k)
     ELSE OwnPayload(RefUri(doc[i]))

NoDuplicates(s) == \A i, j \in 1..Len(s) : s[i] = s[j] => i = j

\* C9 as stated: the references that embed the same payload bytes, whatever
\* media type each declares, are all rewritten to one file, the one file
\* created for those bytes.
C9_OneFilePerPayload ==
  pc = "assets_done" =>
    \A p, q \in Rewritten :
      LET a == OwnPayload(RefUri(source[p[1]]))
          b == OwnPayload(RefUri(source[q[1]]))
      IN (a.ok /\ b.ok /\ a.raw = b.raw) => RefUri(html[p[2]]) = RefUri(html[q[2]])

\* C9 amended: there is one asset file per distinct file name, the name
\* being the content hash followed by the extension of the declared media
\* type.  No name is written twice in a run, a file the directory held
\* before is never written again, every rewritten reference points to the
\* file named by the hash of the bytes decoded for it and the extension of
\* its media type, and that file exists: references with the same bytes
\* and the same extension share one file, written at most once.
C9_OneFilePerName ==
  pc = "assets_done" =>
    /\ NoDuplicates(assets_dir.writes)
    /\ \A n \in DOMAIN assets_before :
         n \notin Range(assets_dir.writes) /\ assets_dir.files[n] = assets_before[n]
    /\ \A n \in Range(assets_dir.writes) : n \in DOMAIN assets_dir.files
    /\ DOMAIN assets_dir.files = DOMAIN assets_before \cup Range(assets_dir.writes)
    /\ \A p \in Rewritten :
         LET d == DecodedFor(source, p[1])
         IN /\ d.ok
            /\ RefUri(html[p[2]]) = AssetUrl(d.raw, d.mime, Sha1Hex16, public_assets)
            /\ PathFile(RefUri(html[p[2]])) \in DOMAIN assets_dir.files
    /\ \A p, q \in Rewritten :
         LET a == DecodedFor(source, p[1])
             b == DecodedFor(source, q[1])
         IN RefUri(html[p[2]]) = RefUri(html[q[2]])
              <=> (Sha1Hex16[a.raw] = Sha1Hex16[b.raw] /\ AssetExt(a.mime) = AssetExt(b.mime))

\* two references carrying the same bytes under one extension were
\* rewritten to one file, which the run wrote once
C9_Witness ==
  /\ pc = "assets_done"
  /\ \E p, q \in Rewritten :
       /\ p[1] # q[1]
       /\ DecodedFor(source, p[1]).raw = DecodedFor(source, q[1]).raw
       /\ RefUri(html[p[2]]) = RefUri(html[q[2]])
       /\ Len(assets_dir.writes) = 1
       /\ assets_dir.writes[1] = PathFile(RefUri(html[p[2]]))

\* the text after ";base64," of a URI the base64 pattern matches
Base64Text(uri) == Drop(uri, Base64UriSplit(uri) + Len(BASE64_COMMA) - 1)

\* a payload that is not base64: a character outside the alphabet and the
\* pad sign, or a last quad left open
MalformedBase64(data) ==
  \/ \E n \in 1..Len(data) : ~IsBase64Char(data[n]) /\ data[n] # "="
  \/ ~b64decode(data).ok

MalformedRefs(doc) ==
  {i \in 1..Len(doc) :
     /\ Base64UriSplit(RefUri(doc[i])) # 0
     /\ MalformedBase64(Base64Text(RefUri(doc[i])))}

\* C11: a reference whose inline payload is not valid base64 is in the
\* output exactly as it was in the input, and the run wrote no file for a
\* document all of whose references are malformed; the other references of
\* the document are rewritten as they are without the malformed one.
C11_MalformedLeftAlone ==
  pc = "assets_done" =>
    /\ \A i \in MalformedRefs(source) : \E j \in 1..Len(html) : html[j] = source[i]
    /\ (MalformedRefs(source) = 1..Len(source)) => assets_dir.writes = <<>>


(***************************************************************************)
(* The HTML normalization pipeline of generate_code, stage by stage, on a  *)
(* whole document.  A pattern the code runs over the text is applied to    *)
(* the lexemes it can match in: class attributes, text runs and the rules  *)
(* of style blocks.  The documents hold no comments and no doctype.        *)
(***************************************************************************)
\* the pieces of a lexeme's text that are not fixed markup; a selector is
\* taken with its dot
TextPieces(x) ==
  IF x.k = "text" THEN {x.s}
  ELSE IF x.k = "close" THEN {x.name}
  ELSE IF x.k = "open" THEN {x.name, Join(x.a.cls, <<" ">>), x.a.href, x.a.src}
  ELSE {x.s} \cup UNION {{<<".">> \o x.rules[r].sel, x.rules[r].prop, x.rules[r].val} :
                           r \in 1..Len(x.rules)}

\* "p in html", p a text that no fixed markup holds
OccursIn(doc, p) == \E i \in 1..Len(doc) : \E t \in TextPieces(doc[i]) : Contains(t, p)

\* \bw\b matches s at position i
WordAt(s, w, i) ==
  /\ OccursAt(s, w, i)
  /\ (i = 1 \/ s[i - 1] \notin WordChars)
  /\ (i + Len(w) > Len(s) \/ s[i + Len(w)] \notin WordChars)

\* \bw\b matches s at position i, letters compared without case
WordAtNoCase(s, w, i) ==
  /\ OccursAtNoCase(s, w, i)
  /\ (i = 1 \/ s[i - 1] \notin WordChars)
  /\ (i + Len(w) > Len(s) \/ s[i + Len(w)] \notin WordChars)

\* re.sub(r"\bw\b", "", s) from position i on
RECURSIVE RemoveWord(_, _, _)
RemoveWord(s, w, i) ==
  IF i > Len(s) THEN <<>>
  ELSE IF WordAt(s, w, i) THEN RemoveWord(s, w, i + Len(w))
  ELSE <<s[i]>> \o RemoveWord(s, w, i + 1)

\* the non-tailwind <style> blocks are removed
RemovePlainStyles(doc) == SelectSeq(doc, LAMBDA x : ~(x.k = "style" /\ ~x.a.hasType))

LETTER_SPACING == <<"l", "e", "t", "t", "e", "r", "-", "s", "p", "a", "c", "i", "n", "g">>

PX == <<"p", "x">>

\* the clamp's re.sub on the declaration "prop: val;" of a rule: the number
\* is the text between "letter-spacing: " and the first "px".  The numbers
\* of these documents carry at most three decimals, so that the rounding of
\* a tie never comes up.
ClampRule(r) ==
  LET ps  == {i \in 1..Len(r.val) : OccursAt(r.val, PX, i)}
      p   == CHOOSE i \in ps : \A j \in ps : i <= j
      num == Take(r.val, p - 1)
  IN IF EndsWith(r.prop, LETTER_SPACING) /\ ps # {} /\ LsPatternMatches(num)
     THEN [r EXCEPT !.val = _clamp_letter_spacing(num, FALSE) \o Drop(r.val, p - 1)]
     ELSE r

\* _replace_tracking_selector on a selector that starts with the pattern
_replace_tracking_selector(sel, defined) ==
  LET val == TrackingBracketValue(sel)
  IN IF val = <<>> THEN sel
     ELSE IF TrackingFlatName(val) \in defined
     THEN TrackingFlatName(val) \o Drop(sel, Len(TRACKING_LB) + Len(val) + Len(PX) + 1)
     ELSE sel

\* html.replace(".tracking-.tracking-", ".tracking-") on a selector
FixDoubledTracking(sel) ==
  Tail(ReplaceAll(<<".">> \o sel, <<".">> \o TRACKING_DASH \o <<".">> \o TRACKING_DASH,
                  <<".">> \o TRACKING_DASH))

\* the passes of _sanitize_html_output over the rules of a style block
SanitizeRules(rules, defined) ==
  [r \in 1..Len(rules) |->
     [ClampRule(rules[r]) EXCEPT
        !.sel = FixDoubledTracking(_replace_tracking_selector(@, defined))]]

OVERFLOW_HIDDEN == <<"o", "v", "e", "r", "f", "l", "o", "w", "-", "h", "i", "d", "d", "e", "n">>

ABSOLUTE == <<"a", "b", "s", "o", "l", "u", "t", "e">>

CLIP_TRUE == <<"c", "l", "i", "p", "-", "t", "r", "u", "e">>

CLIP_CONTENT == <<"c", "l", "i", "p", "-", "c", "o", "n", "t", "e", "n", "t">>

\* the tag is <div class="..."> with \boverflow-hidden\b in the classes,
\* case ignored
IsOverflowDiv(x) ==
  /\ x.k = "open" /\ Lower(x.name) = DIV
  /\ x.a.hasClass /\ ~x.a.hasRel /\ ~x.a.hasHref /\ ~x.a.hasType /\ ~x.a.hasSrc
  /\ \E i \in 1..Len(Join(x.a.cls, <<" ">>)) : WordAtNoCase(Join(x.a.cls, <<" ">>), OVERFLOW_HIDDEN, i)

\* re.search(r"\babsolute\b", tail)
HasAbsolute(tail) ==
  \E n \in 1..Len(tail) : \E t \in TextPieces(tail[n]) : \E i \in 1..Len(t) : WordAt(t, ABSOLUTE, i)

\* re.search(r"(?:top|left|right|bottom)-\[-|-(?:top|left|right|bottom)-\[", tail)
HasNegativeOffset(tail) ==
  \E side \in {TOP, LEFT, RIGHT, BOTTOM} :
    \/ OccursIn(tail, side \o <<"-", "[", "-">>)
    \/ OccursIn(tail, <<"-">> \o side \o <<"-", "[">>)

\* re.sub of the overflow pattern with _relax_overflow_hidden.  The tail
\* group takes up to 8000 characters: in a document shorter than that the
\* first match runs to the end of the text, and it is the only match.  The
\* replacement writes the tag as <div class="...">.
_relax_overflow_hidden(doc) ==
  LET hits       == {i \in 1..Len(doc) : IsOverflowDiv(doc[i])}
      i          == CHOOSE h \in hits : \A g \in hits : h <= g
      class_text == Join(doc[i].a.cls, <<" ">>)
      tail       == SubSeq(doc, i + 1, Len(doc))
  IN IF hits = {} THEN doc
     ELSE IF Contains(class_text, CLIP_TRUE) \/ Contains(class_text, CLIP_CONTENT)
     THEN [doc EXCEPT ![i].name = DIV]
     ELSE IF HasAbsolute(tail) /\ HasNegativeOffset(tail)
     THEN [doc EXCEPT ![i].name = DIV,
                      ![i].a.cls = Fields(RemoveWord(class_text, OVERFLOW_HIDDEN, 1))]
     ELSE [doc EXCEPT ![i].name = DIV]

\* re.sub(r'class="([^"]+)"', _replace_class_attr, html) and the passes
\* over the style rules, with the classes defined after the style removal
SanitizeLexeme(x, defined) ==
  IF x.k = "open" /\ x.a.hasClass /\ x.a.cls # <<>>
  THEN [x EXCEPT !.a.cls = _replace_class_attr(@, defined)]
  ELSE IF x.k = "style" THEN [x EXCEPT !.rules = SanitizeRules(@, defined)]
  ELSE x

\* _sanitize_html_output without its last pass
SanitizeUnrepaired(doc) ==
  IF Len(doc) = 0 THEN doc
  ELSE CHOOSE out \in
         {[i \in 1..Len(d) |-> SanitizeLexeme(d[i], defined)] :
            d \in {RemovePlainStyles(doc)},
            defined \in {_extract_defined_classes(RemovePlainStyles(doc))}} : TRUE

_sanitize_html_output(doc) ==
  IF Len(doc) = 0 THEN doc
  ELSE CHOOSE out \in
         {_relax_overflow_hidden([i \in 1..Len(d) |-> SanitizeLexeme(d[i], defined)]) :
            d \in {RemovePlainStyles(doc)},
            defined \in {_extract_defined_classes(RemovePlainStyles(doc))}} : TRUE

TEXT_CUSTOM_FFFFFF == <<"t", "e", "x", "t", "-", "c", "u", "s", "t", "o", "m", "-", "f", "f", "f", "f", "f", "f">>

\* _ensure_custom_class(html, class_name, css_body), css_body one
\* declaration "prop: val;"
_ensure_custom_class(doc, class_name, prop, val) ==
  IF Len(doc) = 0 \/ ~OccursIn(doc, class_name) THEN doc
  ELSE IF \E i \in 1..Len(doc) : \E r \in 1..Len(doc[i].rules) :
            doc[i].k = "style" /\ EndsWith(<<".">> \o doc[i].rules[r].sel, <<".">> \o class_name)
  THEN doc
  ELSE InjectStyleBlock(doc, StyleBlock(TRUE, <<Rule(class_name, prop, val)>>))


(***************************************************************************)
(* Font injection and image metadata.  convert_design hands generate_code  *)
(* the layout of one screen, which holds "tree" and no "pages"; `nodes` is *)
(* the nodes of that tree in the order _walk visits them.  A node carries  *)
(* family and weight (0: no number), imageUrl, imageScale (both empty when *)
(* absent), radius (-1: none) and the box w, h (0: absent).                *)
(***************************************************************************)
Node(family, weight, imageUrl, imageScale, radius, w, h) ==
  [family |-> family, weight |-> weight, imageUrl |-> imageUrl, imageScale |-> imageScale,
   radius |-> radius, w |-> w, h |-> h]

\* families, in the order of first appearance, each with its set of weights
RECURSIVE _collect_fonts_from_layout(_, _)
_collect_fonts_from_layout(nodes, families) ==
  IF Len(nodes) = 0 THEN families
  ELSE IF Head(nodes).family = <<>> THEN _collect_fonts_from_layout(Tail(nodes), families)
  ELSE CHOOSE out \in
         {_collect_fonts_from_layout(Tail(nodes), f) :
            f \in {[i \in 1..Len(known) |->
                      IF known[i].family = Head(nodes).family /\ Head(nodes).weight # 0
                      THEN [known[i] EXCEPT !.weights = @ \cup {Head(nodes).weight}]
                      ELSE known[i]] :
                   known \in {IF \E i \in 1..Len(families) : families[i].family = Head(nodes).family
                              THEN families
                              ELSE Append(families, [family |-> Head(nodes).family, weights |-> {}])}}} :
         TRUE

\* sorted(weights), each as its decimal text
RECURSIVE SortedWeights(_)
SortedWeights(weights) ==
  IF weights = {} THEN <<>>
  ELSE LET m == CHOOSE w \in weights : \A v \in weights : w <= v
       IN <<NatStr(m)>> \o SortedWeights(weights \ {m})

FONTS_HOST == <<"f", "o", "n", "t", "s", ".", "g", "o", "o", "g", "l", "e", "a", "p", "i", "s", ".", "c", "o", "m", "/", "c", "s", "s", "2">>

LINK == <<"l", "i", "n", "k">>

\* the href of the <link> of _build_google_fonts_link; families is not empty
GoogleFontsHref(families) ==
  <<"h", "t", "t", "p", "s", ":", "/", "/">> \o FONTS_HOST \o <<"?">>
    \o Join([i \in 1..Len(families) |->
               <<"f", "a", "m", "i", "l", "y", "=">> \o ReplaceAll(families[i].family, <<" ">>, <<"+">>)
                 \o (IF families[i].weights = {} THEN <<>>
                     ELSE <<":", "w", "g", "h", "t", "@">> \o Join(SortedWeights(families[i].weights), <<";">>))],
            <<"&">>)
    \o <<"&", "d", "i", "s", "p", "l", "a", "y", "=", "s", "w", "a", "p">>

_build_google_fonts_link(families) ==
  OpenTag(LINK, [NoAttrs EXCEPT !.hasRel = TRUE, !.hasHref = TRUE, !.href = GoogleFontsHref(families)])

FONT_DASH == <<"f", "o", "n", "t", "-">>

FONT_FAMILY == <<"f", "o", "n", "t", "-", "f", "a", "m", "i", "l", "y">>

\* '{family}', sans-serif
FamilyValue(family) == <<"'">> \o family \o <<"'", ",", " ", "s", "a", "n", "s", "-", "s", "e", "r", "i", "f">>

\* the lines of _build_font_utilities: a rule for every family with a slug
RECURSIVE FontLines(_)
FontLines(families) ==
  IF Len(families) = 0 THEN <<>>
  ELSE (IF _norm(Head(families).family) = <<>> THEN <<>>
        ELSE <<Rule(FONT_DASH \o _norm(Head(families).family), FONT_FAMILY,
                    FamilyValue(Head(families).family))>>)
         \o FontLines(Tail(families))

\* the style block of _build_font_utilities; families is not empty and
\* some family has a slug
_build_font_utilities(families) ==
  [StyleBlock(TRUE, FontLines(families)) EXCEPT !.s = families[1].family]

\* re.search(r"\.font-[a-z0-9]", html)
HasFontSelector(doc) ==
  \E n \in 1..Len(doc) : \E t \in TextPieces(doc[n]) : \E i \in 1..Len(t) :
    /\ OccursAt(t, <<".">> \o FONT_DASH, i)
    /\ i + Len(FONT_DASH) + 1 <= Len(t)
    /\ t[i + Len(FONT_DASH) + 1] \in AlnumLower

\* the link after the first <head...>, with "\n    " before it
LinkAfterHead(doc, link) ==
  LET heads == {i \in 1..Len(doc) : doc[i].k = "open" /\ StartsWith(Lower(doc[i].name), HEAD)}
      i     == CHOOSE h \in heads : \A g \in heads : h <= g
  IN IF heads = {} THEN doc
     ELSE SubSeq(doc, 1, i) \o <<TextRun(<<"\n", " ", " ", " ", " ">>), link>>
            \o SubSeq(doc, i + 1, Len(doc))

\* re.sub(r"font-\[q([^q]+)q\]", _replace_bracketed, s) for the quote q,
\* from position i on; slugs are the keys of slug_map
RECURSIVE FontBracketPass(_, _, _, _)
FontBracketPass(s, i, q, slugs) ==
  IF i > Len(s) THEN <<>>
  ELSE LET from == i + Len(FONT_DASH) + 2
           e    == Find(s, from, {q})
           slug == _norm(ReplaceAll(SubSeq(s, from, e - 1), <<"_">>, <<" ">>))
       IN IF /\ OccursAt(s, FONT_DASH \o <<"[", q>>, i)
             /\ e > from /\ e + 1 <= Len(s) /\ s[e + 1] = "]"
          THEN (IF slug \in slugs THEN FONT_DASH \o slug ELSE SubSeq(s, i, e + 1))
                 \o FontBracketPass(s, e + 2, q, slugs)
          ELSE <<s[i]>> \o FontBracketPass(s, i + 1, q, slugs)

\* both bracket patterns of _normalize_font_classes on one piece of text
NormalizeFontText(s, slugs) ==
  CHOOSE out \in {FontBracketPass(t, 1, "\"", slugs) : t \in {FontBracketPass(s, 1, "'", slugs)}} : TRUE

\* _normalize_font_classes.  The loop over the hyphenated names changes
\* nothing: a slug holds no capital, so `hyphen` is the slug itself.
_normalize_font_classes(doc, families) ==
  LET slugs == {_norm(families[i].family) : i \in 1..Len(families)} \ {<<>>}
  IN IF Len(doc) = 0 \/ Len(families) = 0 THEN doc
     ELSE [n \in 1..Len(doc) |->
             IF doc[n].k = "text" THEN [doc[n] EXCEPT !.s = NormalizeFontText(@, slugs)]
             ELSE IF doc[n].k = "open" /\ doc[n].a.hasClass
             THEN [doc[n] EXCEPT !.a.cls = Fields(NormalizeFontText(Join(@, <<" ">>), slugs))]
             ELSE IF doc[n].k = "style"
             THEN [doc[n] EXCEPT !.rules = [r \in 1..Len(@) |->
                                              [@[r] EXCEPT !.val = NormalizeFontText(@, slugs)]]]
             ELSE doc[n]]

\* the three patterns of _fix_apply_font on the declaration "@apply val;"
FixApplyRule(r) ==
  LET v     == r.val
      inner == SubSeq(v, Len(FONT_DASH) + 3, Len(v) - 2)
      name  == Drop(v, Len(FONT_DASH))
  IN IF r.prop # APPLY THEN r
     ELSE IF \E q \in {"'", "\""} :
               /\ StartsWith(v, FONT_DASH \o <<"[", q>>) /\ EndsWith(v, <<q, "]">>)
               /\ Len(inner) >= 1 /\ \A k \in 1..Len(inner) : inner[k] # q
     THEN [r EXCEPT !.prop = FONT_FAMILY, !.val = FamilyValue(ReplaceAll(inner, <<"_">>, <<" ">>))]
     ELSE IF StartsWith(v, FONT_DASH) /\ Len(name) >= 1 /\ AllIn(name, AlnumLower \cup {"_", "-"})
     THEN [r EXCEPT !.prop = FONT_FAMILY, !.val = FamilyValue(name)]
     ELSE r

_fix_apply_font(doc) ==
  [n \in 1..Len(doc) |->
     IF doc[n].k = "style" THEN [doc[n] EXCEPT !.rules = [r \in 1..Len(@) |-> FixApplyRule(@[r])]]
     ELSE doc[n]]

\* the body of _inject_google_fonts once the families are collected
InjectFonts(doc, families) ==
  CHOOSE out \in
    {_fix_apply_font(_normalize_font_classes(d2, families)) :
       d2 \in {IF Len(families) # 0 /\ FontLines(families) # <<>> /\ ~HasFontSelector(d1)
                  /\ HasHeadClose(d1)
               THEN InjectStyleBlock(d1, _build_font_utilities(families))
               ELSE d1 :
               d1 \in {IF Len(families) # 0 /\ ~OccursIn(doc, FONTS_HOST)
                       THEN LinkAfterHead(doc, _build_google_fonts_link(families))
                       ELSE doc}}} : TRUE

_inject_google_fonts(doc, nodes) ==
  IF Len(doc) = 0 THEN doc
  ELSE CHOOSE out \in
         {InjectFonts(doc, families) : families \in {_collect_fonts_from_layout(nodes, <<>>)}} : TRUE

\* the maps of _collect_image_meta after the nodes, as functions of the
\* image url; screen_map stays empty for the layout of one screen
RECURSIVE _collect_image_meta(_, _)
_collect_image_meta(nodes, maps) ==
  IF Len(nodes) = 0 THEN maps
  ELSE LET n         == Head(nodes)
           url       == n.imageUrl
           area      == n.w * n.h
           prev_area == IF url \in DOMAIN maps.size THEN maps.size[url].area ELSE -1
           Put(f, v) == [u \in DOMAIN f \cup {url} |-> IF u = url THEN v ELSE f[u]]
       IN IF url = <<>> \/ area < prev_area THEN _collect_image_meta(Tail(nodes), maps)
          ELSE CHOOSE out \in
                 {_collect_image_meta(Tail(nodes), m) :
                    m \in {[scale  |-> Put(maps.scale, n.imageScale),
                            radius |-> IF n.radius # -1 THEN Put(maps.radius, n.radius)
                                       ELSE maps.radius,
                            size   |-> Put(maps.size, [w |-> n.w, h |-> n.h, area |-> area]),
                            screen |-> maps.screen]}} : TRUE

NoImageMeta == [scale |-> <<>>, radius |-> <<>>, size |-> <<>>, screen |-> <<>>]

OBJECT_CONTAIN == <<"o", "b", "j", "e", "c", "t", "-", "c", "o", "n", "t", "a", "i", "n">>

OBJECT_COVER == <<"o", "b", "j", "e", "c", "t", "-", "c", "o", "v", "e", "r">>

OBJECT_FILL == <<"o", "b", "j", "e", "c", "t", "-", "f", "i", "l", "l">>

OBJECT_SCALE_DOWN == <<"o", "b", "j", "e", "c", "t", "-", "s", "c", "a", "l", "e", "-", "d", "o", "w", "n">>

ROUNDED_DASH == <<"r", "o", "u", "n", "d", "e", "d", "-">>

\* _desired_object; a FILL or CROP image that takes less than 0.6 of the
\* screen both ways is contained
_desired_object(scale, src, maps) ==
  LET sw == IF src \in DOMAIN maps.screen THEN maps.screen[src].w ELSE 0
      sh == IF src \in DOMAIN maps.screen THEN maps.screen[src].h ELSE 0
      w  == IF src \in DOMAIN maps.size THEN maps.size[src].w ELSE 0
      h  == IF src \in DOMAIN maps.size THEN maps.size[src].h ELSE 0
  IN IF scale = <<"F", "I", "T">> THEN OBJECT_CONTAIN
     ELSE IF scale \in {<<"F", "I", "L", "L">>, <<"C", "R", "O", "P">>}
     THEN (IF sw # 0 /\ sh # 0 /\ w # 0 /\ h # 0 /\ 10 * w < 6 * sw /\ 10 * h < 6 * sh
           THEN OBJECT_CONTAIN ELSE OBJECT_COVER)
     ELSE OBJECT_CONTAIN

\* rounded-[{radius}px]
RadiusClass(radius) == ROUNDED_DASH \o <<"[">> \o NatStr(radius) \o PX \o <<"]">>

\* _replace_img on a tag the pattern <img[^>]+src="([^"]+)"[^>]*> matches
_replace_img(x, maps) ==
  LET src     == x.a.src
      scale   == IF src \in DOMAIN maps.scale THEN maps.scale[src] ELSE <<>>
      radius  == IF src \in DOMAIN maps.radius THEN maps.radius[src] ELSE -1
      desired == IF scale # <<>> THEN _desired_object(scale, src, maps) ELSE OBJECT_CONTAIN
      kept    == SelectSeq(x.a.cls, LAMBDA c :
                   c \notin {OBJECT_COVER, OBJECT_CONTAIN, OBJECT_FILL, OBJECT_SCALE_DOWN})
      with    == IF \E i \in 1..Len(kept) : kept[i] = desired THEN kept ELSE Append(kept, desired)
  IN IF x.a.hasClass
     THEN [x EXCEPT !.a.cls =
             IF radius # -1 /\ ~\E i \in 1..Len(with) : StartsWith(with[i], ROUNDED_DASH)
             THEN Append(with, RadiusClass(radius)) ELSE with]
     ELSE IF x.name = IMG
     THEN [x EXCEPT !.a.hasClass = TRUE,
                    !.a.cls = IF radius # -1 THEN <<desired, RadiusClass(radius)>> ELSE <<desired>>]
     ELSE x

\* _apply_image_meta.  The pattern of _unclip_wrappers asks for a backslash
\* between the <div ...> and the <img: it matches nothing in a document
\* without backslashes, so the second re.sub leaves the text as it is.
_apply_image_meta(doc, nodes) ==
  IF Len(doc) = 0 THEN doc
  ELSE CHOOSE out \in
    {IF DOMAIN maps.size = {} THEN doc
     ELSE [n \in 1..Len(doc) |->
             IF /\ doc[n].k = "open" /\ StartsWith(Lower(doc[n].name), IMG)
                /\ ~doc[n].a.hasRel
                /\ doc[n].a.hasSrc /\ doc[n].a.srcQuote = "\"" /\ doc[n].a.src # <<>>
             THEN _replace_img(doc[n], maps) ELSE doc[n]] :
       maps \in {_collect_image_meta(nodes, NoImageMeta)}} : TRUE


(***************************************************************************)
(* generate_code's HTML branch followed by convert_design's call of        *)
(* _extract_data_uris, one step per stage, on a document that holds <html  *)
(* and </html> (the text the model returned, or the text of an earlier     *)
(* run).                                                                   *)
(***************************************************************************)
WORK_SANS == <<"W", "o", "r", "k", " ", "S", "a", "n", "s">>

HERO_PNG == <<"h", "e", "r", "o", ".", "p", "n", "g">>

PNG_URI == <<"d", "a", "t", "a", ":", "i", "m", "a", "g", "e", "/", "p", "n", "g", ";", "b", "a", "s", "e", "6", "4", ",", "A", "Q", "I", "D">>

\* the trees of the screens
TreePool ==
  {<<>>,
   <<Node(WORK_SANS, 400, <<>>, <<>>, -1, 0, 0)>>,
   <<Node(WORK_SANS, 700, HERO_PNG, <<"F", "I", "L", "L">>, 8, 10, 10),
     Node(<<"I", "n", "t", "e", "r">>, 0, PNG_URI, <<"F", "I", "T">>, -1, 20, 10)>>}

HOME == <<"H", "o", "m", "e">>

CONTACT_US == <<"C", "o", "n", "t", "a", "c", "t", " ", "U", "s">>

CONTACT == <<"C", "o", "n", "t", "a", "c", "t">>

\* the screens of the layouts: display name and tree
ScreenPool ==
  {[screen |-> HOME, tree |-> <<>>],
   [screen |-> CONTACT_US, tree |-> <<Node(WORK_SANS, 400, <<>>, <<>>, -1, 0, 0)>>],
   [screen |-> CONTACT, tree |-> <<Node(WORK_SANS, 700, HERO_PNG, <<"F", "I", "L", "L">>, 8, 10, 10),
                                   Node(<<"I", "n", "t", "e", "r">>, 0, PNG_URI, <<"F", "I", "T">>, -1, 20, 10)>>]}

\* layouts of up to MaxScreens screens with distinct names
ScreenLayouts ==
  {q \in SeqsUpTo(ScreenPool, MaxScreens) :
     Len(q) >= 1 /\ \A i, j \in 1..Len(q) : q[i].screen = q[j].screen => i = j}

\* what stands between <head> and </head>
PipeHeads ==
  {<<>>,
   <<StyleBlock(TRUE, <<Rule(<<"t", "r", "a", "c", "k", "i", "n", "g", "-", "n", "1", "_", "5">>, LETTER_SPACING, <<"-", "1", "2", "p", "x">>)>>)>>,
   <<StyleBlock(FALSE, <<Rule(<<"b", "t", "n">>, COLOR, <<"r", "e", "d">>)>>)>>,
   <<StyleBlock(TRUE, <<Rule(<<"t", "i", "t", "l", "e">>, APPLY, <<"f", "o", "n", "t", "-", "[", "'", "W", "o", "r", "k", "_", "S", "a", "n", "s", "'", "]">>)>>)>>}

CONTACT_LABEL == <<"C", "o", "n", "t", "a", "c", "t", " ", "u", "s">>

\* what stands between <body> and </body>
PipeBodies ==
  {<<OpenTag(DIV, ClassAttr(<<<<"g", "a", "p", "-", "4">>, <<"t", "r", "a", "c", "k", "i", "n", "g", "-", "[", "-", "1", "_", "5", "p", "x", "]">>>>)), TextRun(HOME), CloseTag(DIV)>>,
   <<OpenTag(DIV, ClassAttr(<<<<"p", "-", "l", "-", "4", "1">>, FLEX>>)), TextRun(HOME), CloseTag(DIV)>>,
   <<OpenTag(DIV, ClassAttr(<<OVERFLOW_HIDDEN>>)),
     OpenTag(DIV, ClassAttr(<<OVERFLOW_HIDDEN, <<"r", "e", "l", "a", "t", "i", "v", "e">>>>)),
     OpenTag(DIV, ClassAttr(<<ABSOLUTE, <<"t", "o", "p", "-", "[", "-", "4", "p", "x", "]">>>>)), TextRun(HOME),
     CloseTag(DIV), CloseTag(DIV), CloseTag(DIV)>>,
   <<OpenTag(IMG, SrcAttr(PNG_URI, "\""))>>,
   <<OpenTag(IMG, [SrcAttr(HERO_PNG, "\"") EXCEPT !.hasClass = TRUE, !.cls = <<OBJECT_COVER, <<"w", "-", "4">>>>])>>,
   <<OpenTag(IMG, SrcAttr(HERO_PNG, "\""))>>,
   <<OpenTag(BUTTON, ClassAttr(<<<<"t", "e", "x", "t", "-", "c", "u", "s", "t", "o", "m", "-", "f", "f", "f", "f", "f", "f", "f", "f">>, <<"f", "o", "n", "t", "-", "[", "'", "W", "o", "r", "k", "_", "S", "a", "n", "s", "'", "]">>>>)),
     TextRun(CONTACT_LABEL), CloseTag(BUTTON)>>,
   <<OpenTag(<<"p">>, NoAttrs), TextRun(CONTACT_LABEL), CloseTag(<<"p">>),
     OpenTag(IMG, SrcAttr(PNG_URI, "'"))>>,
   <<OpenTag(<<"a">>, HrefAttr(X_HTML)), TextRun(HOME), CloseTag(<<"a">>),
     OpenTag(DIV, ClassAttr(<<<<"b", "g", "-", "c", "u", "s", "t", "o", "m", "-", "f", "f", "0", "0", "0", "0">>>>)), TextRun(CONTACT), CloseTag(DIV)>>}

\* <html><head>...</head><body>...</body></html>
PipeDoc(head, body) ==
  <<OpenTag(HTML, NoAttrs), OpenTag(HEAD, NoAttrs)>> \o head \o <<CloseTag(HEAD), OpenTag(BODY, NoAttrs)>>
    \o body \o <<CloseTag(BODY), CloseTag(HTML)>>

\* the documents the pipeline is run on, one of them without a head
PipeDocs ==
  {PipeDoc(head, body) : head \in PipeHeads, body \in PipeBodies}
    \cup {<<OpenTag(HTML, NoAttrs), OpenTag(BODY, NoAttrs)>> \o body \o <<CloseTag(BODY), CloseTag(HTML)>> :
            body \in PipeBodies}

\* the HTML branch of generate_code is entered
IsHtmlDocument(doc) ==
  /\ \E i \in 1..Len(doc) : doc[i].k = "open" /\ StartsWith(Lower(doc[i].name), HTML)
  /\ \E i \in 1..Len(doc) : doc[i].k = "close" /\ Lower(doc[i].name) = HTML

InitPipeline ==
  /\ CoolIdle
  /\ ConvIdle
  /\ GenIdle
  /\ WorkersIdle
  /\ pc = "pipe_sanitize"
  /\ layout \in ScreenLayouts
  /\ screen_no \in 1..Len(layout)
  /\ tree = layout[screen_no].tree
  /\ source \in PipeDocs
  /\ html = source
  /\ prev = source
  /\ route_index = <<>> /\ anchors = <<>>
  /\ assets_dir = EmptyDir /\ assets_before = <<>> /\ public_assets = FALSE
  /\ run = 1
  /\ first_out = <<>>
  /\ out_files = <<>>
  /\ TokIdle
  /\ LsIdle

\* html = _sanitize_html_output(text)
PipeSanitize ==
  /\ pc = "pipe_sanitize"
  /\ IsHtmlDocument(html)
  /\ prev' = html
  /\ html' = _sanitize_html_output(html)
  /\ pc' = "pipe_color"
  /\ UNCHANGED <<layout, route_index, source, anchors, tokVars, lsVars, assetVars, pipeVars, genVars, workers, coolVars, convVars>>

\* html = _ensure_missing_color_utilities(html)
PipeColor ==
  /\ pc = "pipe_color"
  /\ prev' = html
  /\ html' = _ensure_missing_color_utilities(html)
  /\ pc' = "pipe_fonts"
  /\ UNCHANGED <<layout, route_index, source, anchors, tokVars, lsVars, assetVars, pipeVars, genVars, workers, coolVars, convVars>>

\* _inject_google_fonts(html, layout)
PipeFonts ==
  /\ pc = "pipe_fonts"
  /\ prev' = html
  /\ html' = _inject_google_fonts(html, tree)
  /\ pc' = "pipe_images"
  /\ UNCHANGED <<layout, route_index, source, anchors, tokVars, lsVars, assetVars, pipeVars, genVars, workers, coolVars, convVars>>

\* html = _apply_image_meta(..., layout)
PipeImages ==
  /\ pc = "pipe_images"
  /\ prev' = html
  /\ html' = _apply_image_meta(html, tree)
  /\ pc' = "pipe_custom"
  /\ UNCHANGED <<layout, route_index, source, anchors, tokVars, lsVars, assetVars, pipeVars, genVars, workers, coolVars, convVars>>

\* html = _ensure_custom_class(html, "text-custom-ffffff", "color: #ffffff;")
PipeCustomClass ==
  /\ pc = "pipe_custom"
  /\ prev' = html
  /\ html' = _ensure_custom_class(html, TEXT_CUSTOM_FFFFFF, COLOR, <<"#", "f", "f", "f", "f", "f", "f">>)
  /\ pc' = "pipe_links"
  /\ UNCHANGED <<layout, route_index, source, anchors, tokVars, lsVars, assetVars, pipeVars, genVars, workers, coolVars, convVars>>

\* html = _convert_nav_to_links(html, routing_layout), the layout of all
\* the screens
PipeLinks ==
  /\ pc = "pipe_links"
  /\ prev' = html
  /\ route_index' = _build_route_index(layout)
  /\ html' = _convert_nav_to_links(html, layout)
  /\ pc' = "pipe_assets"
  /\ UNCHANGED <<layout, source, anchors, tokVars, lsVars, assetVars, pipeVars, genVars, workers, coolVars, convVars>>

\* code = _extract_data_uris(code, out_dir, public_assets=False)
PipeExternalize ==
  /\ pc = "pipe_assets"
  /\ prev' = html
  /\ \E r \in {_extract_data_uris(html, assets_dir, Sha1Hex16, public_assets)} :
       html' = r.doc /\ assets_dir' = r.fs
  /\ pc' = "pipe_done"
  /\ UNCHANGED <<layout, route_index, source, anchors, tokVars, lsVars, assets_before,
                 public_assets, pipeVars, genVars, workers, coolVars, convVars>>

\* the pipeline is run again on the text it returned, with the same layout
\* and the same asset directory
RunAgain ==
  /\ pc = "pipe_done"
  /\ run = 1
  /\ first_out' = html
  /\ run' = 2
  /\ pc' = "pipe_sanitize"
  /\ UNCHANGED <<tokVars, lsVars, navVars, assetVars, tree, screen_no, out_files, genVars, workers, coolVars, convVars>>

NextPipeline ==
  \/ PipeSanitize
  \/ PipeColor
  \/ PipeFonts
  \/ PipeImages
  \/ PipeCustomClass
  \/ PipeLinks
  \/ PipeExternalize
  \/ RunAgain

SpecPipeline == InitPipeline /\ [][NextPipeline]_vars

\* C1: when the pipeline is run a second time on the text it returned, with
\* the same layout and asset directory, the second run returns exactly the
\* text of the first run.
C1_SecondRunSameText ==
  (pc = "pipe_done" /\ run = 2) => RenderAll(html) = RenderAll(first_out)


(***************************************************************************)
(* convert_design, HTML mode: for every screen of the layout, in order,    *)
(* the page is generated (the model's text is any document of AiOutputs),  *)
(* normalized, its data URIs are externalized into the freshly made output *)
(* directory, and it is written under a name made from the screen's name.  *)
(***************************************************************************)
\* the texts the model may return for a screen
AiOutputs ==
  {PipeDoc(<<>>, body) : body \in {b \in PipeBodies : \E i \in 1..Len(b) : b[i].k = "text"}}

\* f"{screen['screen'].lower().replace(' ', '_')}.html"
OutputFileName(name) == ReplaceAll(Lower(name), <<" ">>, <<"_">>) \o DOT_HTML

InitConvert ==
  /\ CoolIdle
  /\ ConvIdle
  /\ GenIdle
  /\ WorkersIdle
  /\ pc = "convert_screen"
  /\ layout \in ScreenLayouts
  /\ screen_no = 1
  /\ tree = <<>>
  /\ source = <<>> /\ html = <<>> /\ prev = <<>>
  /\ route_index = <<>> /\ anchors = <<>>
  /\ assets_dir = EmptyDir /\ assets_before = <<>> /\ public_assets = FALSE
  /\ run = 1
  /\ first_out = <<>>
  /\ out_files = <<>>
  /\ TokIdle
  /\ LsIdle

\* generate_code(screen_layout, framework, route_layout=layout) up to the
\* model's answer
StartScreen ==
  /\ pc = "convert_screen"
  /\ screen_no <= Len(layout)
  /\ tree' = layout[screen_no].tree
  /\ \E text \in AiOutputs : source' = text /\ html' = text /\ prev' = text
  /\ pc' = "pipe_sanitize"
  /\ UNCHANGED <<layout, route_index, anchors, tokVars, lsVars, assetVars, run, first_out,
                 screen_no, out_files, genVars, workers, coolVars, convVars>>

\* open(os.path.join(out_dir, filename), "w").write(code)
WriteScreen ==
  /\ pc = "pipe_done"
  /\ out_files' = Append(out_files, [screen |-> screen_no,
                                     name |-> OutputFileName(layout[screen_no].screen),
                                     text |-> html])
  /\ screen_no' = screen_no + 1
  /\ pc' = "convert_screen"
  /\ UNCHANGED <<tokVars, lsVars, navVars, assetVars, tree, run, first_out, genVars, workers, coolVars, convVars>>

\* the loop over the screens ends
ConvertDone ==
  /\ pc = "convert_screen"
  /\ screen_no > Len(layout)
  /\ pc' = "convert_done"
  /\ UNCHANGED <<tokVars, lsVars, navVars, assetVars, pipeVars, genVars, workers, coolVars, convVars>>

NextConvert ==
  \/ StartScreen
  \/ PipeSanitize
  \/ PipeColor
  \/ PipeFonts
  \/ PipeImages
  \/ PipeCustomClass
  \/ PipeLinks
  \/ PipeExternalize
  \/ WriteScreen
  \/ ConvertDone

SpecConvert == InitConvert /\ [][NextConvert]_vars

\* C2: in the pages a conversion has written, every href that the linker
\* wrote for a screen of the layout is the name of the file the conversion
\* wrote for that screen.
C2_HrefsAreWrittenFiles ==
  pc = "convert_done" =>
    \A f \in 1..Len(out_files) : \A i \in 1..Len(out_files[f].text) : \A s \in 1..Len(layout) :
      (/\ IsAnchorOpen(out_files[f].text[i])
       /\ out_files[f].text[i].a.hasHref
       /\ out_files[f].text[i].a.href = Route(layout[s].screen).file)
        => \E g \in 1..Len(out_files) :
             out_files[g].screen = s /\ out_files[g].name = out_files[f].text[i].a.href

(***************************************************************************)
(* StructuralRepairPass: the overflow-hidden relaxation at the end of      *)
(* _sanitize_html_output, applied to a document of wrapper divs, each      *)
(* holding one child div.                                                  *)
(***************************************************************************)
MaxBlocks == 2

RELATIVE == <<"r", "e", "l", "a", "t", "i", "v", "e">>

WrapperPool ==
  {<<OVERFLOW_HIDDEN>>, <<RELATIVE, OVERFLOW_HIDDEN>>, <<OVERFLOW_HIDDEN, CLIP_TRUE>>,
   <<OVERFLOW_HIDDEN, CLIP_CONTENT>>, <<RELATIVE>>}

ChildPool ==
  {<<ABSOLUTE, <<"-", "l", "e", "f", "t", "-", "[", "1", "0", "p", "x", "]">>>>, <<ABSOLUTE, <<"l", "e", "f", "t", "-", "[", "-", "1", "0", "p", "x", "]">>>>,
   <<ABSOLUTE, <<"l", "e", "f", "t", "-", "[", "1", "0", "p", "x", "]">>>>, <<RELATIVE, <<"-", "l", "e", "f", "t", "-", "[", "1", "0", "p", "x", "]">>>>}

\* <div class="wrapper"><div class="child"></div></div>
Block(wrapper, child) ==
  <<OpenTag(DIV, ClassAttr(wrapper)), OpenTag(DIV, ClassAttr(child)), CloseTag(DIV), CloseTag(DIV)>>

RECURSIVE Concat(_)
Concat(ss) == IF Len(ss) = 0 THEN <<>> ELSE Head(ss) \o Concat(Tail(ss))

RelaxDocs ==
  {Concat(bs) : bs \in SeqsUpTo({Block(w, c) : w \in WrapperPool, c \in ChildPool}, MaxBlocks) \ {<<>>}}

InitRelax ==
  /\ CoolIdle
  /\ ConvIdle
  /\ GenIdle
  /\ WorkersIdle
  /\ pc = "relax"
  /\ source \in RelaxDocs
  /\ html = source
  /\ layout = <<>> /\ route_index = <<>> /\ prev = <<>> /\ anchors = <<>>
  /\ TokIdle
  /\ LsIdle
  /\ AssetIdle
  /\ PipeIdle

RelaxOverflowHidden ==
  /\ pc = "relax"
  /\ html' = _relax_overflow_hidden(html)
  /\ pc' = "relax_done"
  /\ UNCHANGED <<layout, route_index, source, prev, anchors, tokVars, lsVars, assetVars, pipeVars, genVars, workers, coolVars, convVars>>

NextRelax == RelaxOverflowHidden

SpecRelax == InitRelax /\ [][NextRelax]_vars

\* the wrappers of a document: the opening tags that are followed by an
\* opening tag, their child
Wrappers(doc) == {i \in 1..(Len(doc) - 1) : doc[i].k = "open" /\ doc[i + 1].k = "open"}

\* the child is absolutely positioned and carries a negative offset
NegativeAbsoluteChild(x) ==
  /\ ABSOLUTE \in Range(x.a.cls)
  /\ \E c \in Range(x.a.cls) : \E side \in {TOP, LEFT, RIGHT, BOTTOM} :
       \/ OccursAt(c, <<"-">> \o side \o <<"-", "[">>, 1)
       \/ OccursAt(c, side \o <<"-", "[", "-">>, 1)

PreserveClipping(cls) == CLIP_TRUE \in Range(cls) \/ CLIP_CONTENT \in Range(cls)

\* C12: after the pass, every div that carried overflow-hidden and holds an
\* absolutely positioned child with a negative offset carries its other
\* classes, in order, and no overflow-hidden, unless its class list has
\* clip-true or clip-content: then it carries the class list it had.
C12_OverflowRelaxed ==
  pc = "relax_done" =>
    \A i \in Wrappers(source) :
      (/\ OVERFLOW_HIDDEN \in Range(source[i].a.cls)
       /\ NegativeAbsoluteChild(source[i + 1]))
        => html[i].a.cls =
             IF PreserveClipping(source[i].a.cls) THEN source[i].a.cls
             ELSE SelectSeq(source[i].a.cls, LAMBDA c : c # OVERFLOW_HIDDEN)

\* C25: every clipping container is evaluated: a div with overflow-hidden
\* that begins inside the lookahead window of an earlier overflow-hidden div
\* (here: anywhere after it, the documents being shorter than the window) is
\* still relaxed when it holds an absolutely positioned child with a
\* negative offset and has no preserve-clipping flag.
C25_LaterContainerRelaxed ==
  pc = "relax_done" =>
    \A i \in Wrappers(source) :
      (/\ \E j \in Wrappers(source) : j < i /\ OVERFLOW_HIDDEN \in Range(source[j].a.cls)
       /\ OVERFLOW_HIDDEN \in Range(source[i].a.cls)
       /\ NegativeAbsoluteChild(source[i + 1])
       /\ ~PreserveClipping(source[i].a.cls))
        => OVERFLOW_HIDDEN \notin Range(html[i].a.cls)


(***************************************************************************)
(* generate_code in HTML mode: the retry loop around the model call, the   *)
(* checks made on the text, and the continuation loop for a text without   *)
(* </html>.  The text is a sequence of characters.  The texts hold no      *)
(* utility-style block and none of the byte sequences _fix_mojibake        *)
(* replaces.  time.sleep only passes time.                                 *)
(***************************************************************************)
\* for attempt in range(retries)
retries == 5

\* for _ in range(8)
ContinuationLimit == 8

\* the character of code 96, under a name
BACKTICK == "backtick"

FENCE == <<BACKTICK, BACKTICK, BACKTICK>>

Whitespace == {" ", "\n", "\t"}

RECURSIVE LStrip(_)
LStrip(s) == IF Len(s) >= 1 /\ Head(s) \in Whitespace THEN LStrip(Tail(s)) ELSE s

RECURSIVE RStrip(_)
RStrip(s) == IF Len(s) >= 1 /\ s[Len(s)] \in Whitespace THEN RStrip(Take(s, Len(s) - 1)) ELSE s

\* str.strip()
Strip(s) == RStrip(LStrip(s))

LT_HTML == <<"<", "h", "t", "m", "l">>

LT_SLASH_HTML_GT == <<"<", "/", "h", "t", "m", "l", ">">>

TAILWIND_SCRIPT == <<"<", "s", "c", "r", "i", "p", "t", " ", "s", "r", "c", "=", "\"", "h", "t", "t", "p", "s", ":", "/", "/", "c", "d", "n", ".", "t", "a", "i", "l", "w", "i", "n", "d", "c", "s", "s", ".", "c", "o", "m", "\"", ">", "<", "/", "s", "c", "r", "i", "p", "t", ">">>

META_LINES ==
  <<<<" ", " ", " ", " ", "<", "m", "e", "t", "a", " ", "c", "h", "a", "r", "s", "e", "t", "=", "\"", "U", "T", "F", "-", "8", "\"", ">">>,
    <<" ", " ", " ", " ", "<", "m", "e", "t", "a", " ", "n", "a", "m", "e", "=", "\"", "v", "i", "e", "w", "p", "o", "r", "t", "\"", " ", "c", "o", "n", "t", "e", "n", "t", "=", "\"", "w", "i", "d", "t", "h", "=", "d", "e", "v", "i", "c", "e", "-", "w", "i", "d", "t", "h", ",", " ", "i", "n", "i", "t", "i", "a", "l", "-", "s", "c", "a", "l", "e", "=", "1", ".", "0", "\"", ">">>>>

\* re.sub(r"(<head[^>]*>)", _inject_head, doc, count=1) with no styles
InjectHead(doc, has_tailwind) ==
  LET opens == {i \in 1..Len(doc) :
                  OccursAtNoCase(doc, <<"<", "h", "e", "a", "d">>, i) /\ \E j \in (i + 5)..Len(doc) : doc[j] = ">"}
      i     == CHOOSE o \in opens : \A q \in opens : o <= q
      j     == CHOOSE g \in (i + 5)..Len(doc) : doc[g] = ">" /\ \A q \in (i + 5)..(g - 1) : doc[q] # ">"
  IN IF opens = {} \/ has_tailwind THEN doc
     ELSE Take(doc, j) \o <<"\n", " ", " ", " ", " ">> \o TAILWIND_SCRIPT \o Drop(doc, j)

_ensure_html_document(text) ==
  LET lower         == Lower(text)
      has_tailwind  == Contains(lower, <<"c", "d", "n", ".", "t", "a", "i", "l", "w", "i", "n", "d", "c", "s", "s", ".", "c", "o", "m">>)
      text_wo_styles == Strip(text)
      script_line   == IF has_tailwind THEN <<>> ELSE <<<<" ", " ", " ", " ">> \o TAILWIND_SCRIPT>>
  IN IF text = <<>> THEN text
     ELSE IF ~Contains(text, <<"<">>) \/ ~Contains(text, <<">">>) THEN text
     ELSE IF Contains(lower, LT_HTML) THEN text
     ELSE IF Contains(lower, <<"<", "h", "e", "a", "d">>) \/ Contains(lower, <<"<", "b", "o", "d", "y">>)
     THEN LET with_head == IF Contains(lower, <<"<", "h", "e", "a", "d">>) THEN InjectHead(text_wo_styles, has_tailwind)
                           ELSE Join(<<<<"<", "h", "e", "a", "d", ">">>>> \o META_LINES \o script_line \o <<<<"<", "/", "h", "e", "a", "d", ">">>>>, <<"\n">>)
                                  \o <<"\n">> \o text_wo_styles
              with_html == IF ~Contains(Lower(with_head), LT_HTML)
                           THEN <<"<", "h", "t", "m", "l", " ", "l", "a", "n", "g", "=", "\"", "e", "n", "\"", ">", "\n">> \o with_head \o <<"\n", "<", "/", "h", "t", "m", "l", ">">>
                           ELSE with_head
          IN IF ~Contains(Lower(with_html), <<"<", "!", "d", "o", "c", "t", "y", "p", "e">>) THEN <<"<", "!", "D", "O", "C", "T", "Y", "P", "E", " ", "h", "t", "m", "l", ">", "\n">> \o with_html
             ELSE with_html
     ELSE <<"<", "!", "D", "O", "C", "T", "Y", "P", "E", " ", "h", "t", "m", "l", ">", "\n", "<", "h", "t", "m", "l", " ", "l", "a", "n", "g", "=", "\"", "e", "n", "\"", ">", "\n">>
            \o Join(<<<<"<", "h", "e", "a", "d", ">">>>> \o META_LINES \o <<<<" ", " ", " ", " ", "<", "t", "i", "t", "l", "e", ">", "F", "i", "g", "m", "a", " ", "t", "o", " ", "H", "T", "M", "L", "<", "/", "t", "i", "t", "l", "e", ">">>>>
                      \o script_line \o <<<<"<", "/", "h", "e", "a", "d", ">">>>>, <<"\n">>)
            \o <<"\n">> \o <<"<", "b", "o", "d", "y", ">", "\n">> \o text_wo_styles \o <<"\n", "<", "/", "b", "o", "d", "y", ">">> \o <<"\n", "<", "/", "h", "t", "m", "l", ">">>

\* the texts the model may answer with, <<>> for an answer without text
AiTexts ==
  {<<>>, <<" ", " ">>, <<"S", "o", "r", "r", "y">>, <<"a", " ", "<", " ", "b">>, <<"<", "p", ">", "H", "i", "<", "/", "p", ">">>,
   FENCE \o <<"h", "t", "m", "l", "\n", "<", "p", ">", "H", "i", "<", "/", "p", ">", "\n">> \o FENCE,
   <<"<", "b", "o", "d", "y", ">", "<", "p", ">", "H", "i", "<", "/", "p", ">", "<", "/", "b", "o", "d", "y", ">">>, <<"<", "h", "e", "a", "d", ">", "<", "/", "h", "e", "a", "d", ">", "<", "b", "o", "d", "y", ">", "<", "/", "b", "o", "d", "y", ">">>,
   <<"<", "h", "t", "m", "l", ">", "<", "b", "o", "d", "y", ">", "<", "p", ">", "H", "i", "<", "/", "p", ">", "<", "/", "b", "o", "d", "y", ">", "<", "/", "h", "t", "m", "l", ">">>, <<"<", "H", "T", "M", "L", ">", "<", "B", "O", "D", "Y", ">", "<", "/", "B", "O", "D", "Y", ">", "<", "/", "H", "T", "M", "L", ">">>,
   <<"<", "h", "t", "m", "l", ">", "<", "b", "o", "d", "y", ">", "<", "p", ">", "H", "i">>, <<"<", "!", "D", "O", "C", "T", "Y", "P", "E", " ", "h", "t", "m", "l", ">", "\n", "<", "h", "t", "m", "l", ">", "<", "b", "o", "d", "y", ">">>}

\* the texts a continuation request may be answered with
ContTexts == {<<>>, <<" ">>, <<"<", "/", "p", ">", "<", "/", "b", "o", "d", "y", ">", "<", "/", "h", "t", "m", "l", ">">>, <<"<", "p", ">", "m", "o", "r", "e", "<", "/", "p", ">">>, <<"<", "h", "t", "m", "l", ">", "<", "b", "o", "d", "y", ">", "<", "p", ">", "H", "i">>}

EMPTY_RESPONSE == "Empty model response"

NO_HTML == "AI did not return HTML"

TRUNCATED == "AI output truncated before </html>"

CLIENT_ERROR == "client error"

RETRIES_EXHAUSTED == "AI failed after multiple retries"

RETURNED == "returned"

\* delay = 3
InitialDelay == 3

\* what str(e) may be when the model call raises
ErrorMessages ==
  {<<"5", "0", "3", " ", "S", "e", "r", "v", "i", "c", "e", " ", "U", "n", "a", "v", "a", "i", "l", "a", "b", "l", "e">>, <<"T", "h", "e", " ", "m", "o", "d", "e", "l", " ", "i", "s", " ", "o", "v", "e", "r", "l", "o", "a", "d", "e", "d", ".", " ", "U", "N", "A", "V", "A", "I", "L", "A", "B", "L", "E">>, <<"h", "t", "t", "p", "x", ".", "R", "e", "a", "d", "E", "r", "r", "o", "r">>,
   <<"[", "W", "i", "n", "E", "r", "r", "o", "r", " ", "1", "0", "0", "5", "3", "]", " ", "c", "o", "n", "n", "e", "c", "t", "i", "o", "n", " ", "a", "b", "o", "r", "t", "e", "d">>, <<"4", "0", "4", " ", "N", "o", "t", " ", "F", "o", "u", "n", "d">>, <<"u", "n", "a", "v", "a", "i", "l", "a", "b", "l", "e">>}

\* the test of the except clause
IsTransient(message) ==
  \E part \in {<<"5", "0", "3">>, <<"U", "N", "A", "V", "A", "I", "L", "A", "B", "L", "E">>, <<"R", "e", "a", "d", "E", "r", "r", "o", "r">>, <<"W", "i", "n", "E", "r", "r", "o", "r", " ", "1", "0", "0", "5", "3">>} : Contains(message, part)

InitGenerate ==
  /\ CoolIdle
  /\ ConvIdle
  /\ pc = "gen_call"
  /\ gen_text = <<>>
  /\ attempt = 0
  /\ continuations = 0
  /\ outcome = ""
  /\ delay = InitialDelay
  /\ requests = 0
  /\ slept = <<>>
  /\ msg = <<>>
  /\ WorkersIdle
  /\ NavIdle
  /\ TokIdle
  /\ LsIdle
  /\ AssetIdle
  /\ PipeIdle

\* the model call raises: a message with 503, UNAVAILABLE, ReadError or
\* WinError 10053 leads to the next attempt, any other is raised again
ClientRaisesAlwaysRetried ==
  /\ pc = "gen_call"
  /\ requests' = requests + 1
  /\ \E e \in ErrorMessages :
       /\ msg' = e
       /\ slept' = Append(slept, delay) /\ delay' = delay * 2
       /\ IF attempt + 1 < retries
          THEN pc' = "gen_call" /\ outcome' = outcome /\ attempt' = attempt + 1
          ELSE pc' = "gen_raised" /\ outcome' = RETRIES_EXHAUSTED /\ attempt' = attempt + 1
  /\ UNCHANGED <<gen_text, continuations, workers, tokVars, lsVars, navVars, assetVars, pipeVars, coolVars, convVars>>

ClientRaises ==
  /\ pc = "gen_call"
  /\ requests' = requests + 1
  /\ \E e \in ErrorMessages :
       /\ msg' = e
       /\ IF ~IsTransient(e)
          THEN /\ pc' = "gen_raised" /\ outcome' = CLIENT_ERROR /\ attempt' = attempt
               /\ UNCHANGED <<slept, delay>>
          ELSE /\ slept' = Append(slept, delay) /\ delay' = delay * 2
               /\ IF attempt + 1 < retries
                  THEN pc' = "gen_call" /\ outcome' = outcome /\ attempt' = attempt + 1
                  ELSE pc' = "gen_raised" /\ outcome' = RETRIES_EXHAUSTED /\ attempt' = attempt + 1
  /\ UNCHANGED <<gen_text, continuations, workers, tokVars, lsVars, navVars, assetVars, pipeVars, coolVars, convVars>>

\* the model answers: the text is stripped, the fences are removed, a text
\* without <html is wrapped, and the text is returned normalized, raised
\* on, or handed to the continuation loop
ModelAnswers ==
  /\ pc = "gen_call"
  /\ requests' = requests + 1
  /\ \E response \in AiTexts :
       IF Strip(response) = <<>>
       THEN pc' = "gen_raised" /\ outcome' = EMPTY_RESPONSE /\ gen_text' = response
       ELSE \E stripped \in {ReplaceAll(Strip(response), FENCE, <<>>)} :
            \E wrapped \in {IF ~Contains(Lower(stripped), LT_HTML) THEN _ensure_html_document(stripped)
                            ELSE stripped} :
              /\ gen_text' = wrapped
              /\ IF ~Contains(Lower(wrapped), LT_HTML)
                 THEN pc' = "gen_raised" /\ outcome' = NO_HTML
                 ELSE IF Contains(Lower(wrapped), LT_SLASH_HTML_GT)
                 THEN pc' = "gen_returned" /\ outcome' = RETURNED
                 ELSE pc' = "gen_continue" /\ outcome' = outcome
  /\ UNCHANGED <<attempt, continuations, delay, slept, msg, workers, tokVars, lsVars, navVars, assetVars, pipeVars, coolVars, convVars>>

\* one round of the continuation loop: the request raises or has no text
\* (break), or its text is appended to partial
ContinueText ==
  /\ pc = "gen_continue"
  /\ \E failed \in BOOLEAN : \E cont \in ContTexts :
       IF failed \/ cont = <<>>
       THEN pc' = "gen_raised" /\ outcome' = TRUNCATED /\ UNCHANGED <<gen_text, continuations>>
       ELSE \E cleaned \in {ReplaceAll(Strip(cont), FENCE, <<>>)} :
            \E cont_text \in {IF cleaned # <<>> /\ Contains(gen_text, cleaned)
                              THEN ReplaceAll(cleaned, gen_text, <<>>) ELSE cleaned} :
              /\ gen_text' = gen_text \o cont_text
              /\ continuations' = continuations + 1
              /\ IF Contains(Lower(gen_text \o cont_text), LT_SLASH_HTML_GT)
                 THEN pc' = "gen_returned" /\ outcome' = RETURNED
                 ELSE IF continuations + 1 < ContinuationLimit
                 THEN pc' = "gen_continue" /\ outcome' = outcome
                 ELSE pc' = "gen_raised" /\ outcome' = TRUNCATED
  /\ UNCHANGED <<attempt, delay, requests, slept, msg, workers, tokVars, lsVars, navVars, assetVars, pipeVars, coolVars, convVars>>

NextGenerate ==
  \/ ClientRaises
  \/ ModelAnswers
  \/ ContinueText

SpecGenerate == InitGenerate /\ [][NextGenerate]_vars

\* the text has tag structure: a "<" followed by a letter, "/" or "!", and
\* a ">" after it
HasTagStructure(text) ==
  \E i \in 1..Len(text) :
    /\ text[i] = "<"
    /\ i < Len(text)
    /\ text[i + 1] \in LowerLetters \cup UpperLetters \cup {"/", "!"}
    /\ \E j \in (i + 1)..Len(text) : text[j] = ">"

\* C13: when the processing of a generated text ends by raising, the
\* failure is the no-markup failure (for an answer without text, the
\* empty-response failure) and the text has no tag structure; a text with
\* tag structure ends by being returned.  Failures of the model call
\* itself are not failures of the processing.
C13_OnlyNoMarkupFailure ==
  (pc = "gen_raised" /\ outcome \notin {CLIENT_ERROR, RETRIES_EXHAUSTED})
    => (outcome \in {NO_HTML, EMPTY_RESPONSE} /\ ~HasTagStructure(gen_text))

\* generate_code runs on its own thread of control from its call to its
\* return or raise; every request it makes is answered or raises
FairGenerate == SpecGenerate /\ WF_vars(NextGenerate)

\* the waits of the retry loop, in order
RetryWaits == [k \in 1..retries |-> InitialDelay * 2 ^ (k - 1)]

\* once generate_code has returned or raised it makes no request
NoRequestAfterEnd == (pc \in {"gen_raised", "gen_returned"}) => (requests' = requests)

\* C28: generate_code issues at most 5 primary generation requests; it
\* retries, after waits of 3, 6, 12, 24, 48 seconds, only when a request
\* fails with a transient error (a message with 503, UNAVAILABLE, ReadError
\* or WinError 10053), propagates any other failure on its first occurrence
\* without another request, raises RuntimeError after the fifth consecutive
\* transient failure, and always terminates.
C28_BoundedTransientRetries ==
  /\ [](requests <= retries)
  /\ [](slept = SubSeq(RetryWaits, 1, Len(slept)))
  /\ []((pc = "gen_call" /\ requests > 0) =>
          (IsTransient(msg) /\ Len(slept) = requests /\ requests < retries))
  /\ []((pc = "gen_raised" /\ outcome = CLIENT_ERROR) =>
          (~IsTransient(msg) /\ Len(slept) = requests - 1))
  /\ [](outcome = RETRIES_EXHAUSTED <=> (pc = "gen_raised" /\ Len(slept) = retries))
  /\ [][NoRequestAfterEnd]_vars
  /\ <>(pc \in {"gen_raised", "gen_returned"})

\* the fifth transient failure in a row
C28_Witness ==
  /\ pc = "gen_raised" /\ outcome = RETRIES_EXHAUSTED
  /\ requests = retries /\ slept = <<3, 6, 12, 24, 48>>



(***************************************************************************)
(* Two workers in _write_asset on one asset directory, every step of one   *)
(* interleaved with the steps of the other: os.path.exists, open(path,     *)
(* "wb"), the bytes of f.write reaching the file one at a time at the      *)
(* worker's own file position, and the close.                              *)
(***************************************************************************)
Workers == {1, 2}

PNG_MIME == <<"i", "m", "a", "g", "e", "/", "p", "n", "g">>

\* the payloads a worker may be externalizing
WorkerPayloads ==
  {[raw |-> PNG_BYTES, mime |-> PNG_MIME], [raw |-> PNG2_BYTES, mime |-> PNG_MIME],
   [raw |-> PNG_BYTES, mime |-> <<"i", "m", "a", "g", "e", "/", "j", "p", "e", "g">>], [raw |-> SVG_BYTES, mime |-> SVG_MIME]}

\* the directory before the workers start: empty, or holding an asset an
\* earlier run wrote
WorkerDirs ==
  {<<>>, [n \in {AssetFilename(PNG_BYTES, PNG_MIME, Sha1Hex16)} |-> PNG_BYTES]}

InitWrite ==
  /\ CoolIdle
  /\ ConvIdle
  /\ pc = "write_assets"
  /\ \E p \in [Workers -> WorkerPayloads] :
       workers = [w \in Workers |->
                    [at |-> "exists", raw |-> p[w].raw, mime |-> p[w].mime,
                     filename |-> AssetFilename(p[w].raw, p[w].mime, Sha1Hex16),
                     position |-> 0, returned |-> <<>>]]
  /\ assets_before \in WorkerDirs
  /\ assets_dir = [files |-> assets_before, writes |-> <<>>]
  /\ public_assets = FALSE
  /\ GenIdle
  /\ NavIdle
  /\ TokIdle
  /\ LsIdle
  /\ PipeIdle

\* the bytes of a file after byte b is written at position n, counted
\* from 0; a position past the end leaves a gap of zero bytes
WriteAt(bytes, n, b) ==
  [i \in 1..(IF n + 1 > Len(bytes) THEN n + 1 ELSE Len(bytes)) |->
     IF i = n + 1 THEN b ELSE IF i <= Len(bytes) THEN bytes[i] ELSE 0]

\* if not os.path.exists(path)
PathExists(w) ==
  /\ pc = "write_assets"
  /\ workers[w].at = "exists"
  /\ workers' = [workers EXCEPT ![w].at =
                   IF workers[w].filename \in DOMAIN assets_dir.files THEN "return" ELSE "open"]
  /\ UNCHANGED <<pc, assetVars, genVars, tokVars, lsVars, navVars, pipeVars, coolVars, convVars>>

\* open(path, "wb"): the file is created, or cut to no bytes
OpenFile(w) ==
  /\ pc = "write_assets"
  /\ workers[w].at = "open"
  /\ assets_dir' =
       [files  |-> [n \in DOMAIN assets_dir.files \cup {workers[w].filename} |->
                      IF n = workers[w].filename THEN <<>> ELSE assets_dir.files[n]],
        writes |-> Append(assets_dir.writes, workers[w].filename)]
  /\ workers' = [workers EXCEPT ![w].at = "write", ![w].position = 0]
  /\ UNCHANGED <<pc, assets_before, public_assets, genVars, tokVars, lsVars, navVars, pipeVars, coolVars, convVars>>

\* f.write(raw) and the flush: the next byte reaches the file
WriteByte(w) ==
  /\ pc = "write_assets"
  /\ workers[w].at = "write"
  /\ workers[w].position < Len(workers[w].raw)
  /\ assets_dir' =
       [assets_dir EXCEPT !.files[workers[w].filename] =
          WriteAt(@, workers[w].position, workers[w].raw[workers[w].position + 1])]
  /\ workers' = [workers EXCEPT ![w].position = @ + 1]
  /\ UNCHANGED <<pc, assets_before, public_assets, genVars, tokVars, lsVars, navVars, pipeVars, coolVars, convVars>>

\* the end of the with block
CloseFile(w) ==
  /\ pc = "write_assets"
  /\ workers[w].at = "write"
  /\ workers[w].position = Len(workers[w].raw)
  /\ workers' = [workers EXCEPT ![w].at = "return"]
  /\ UNCHANGED <<pc, assetVars, genVars, tokVars, lsVars, navVars, pipeVars, coolVars, convVars>>

\* return f"{url_prefix}/{filename}"
ReturnUrl(w) ==
  /\ pc = "write_assets"
  /\ workers[w].at = "return"
  /\ workers' = [workers EXCEPT ![w].at = "done",
                                ![w].returned = UrlPrefix(public_assets) \o <<"/">> \o workers[w].filename]
  /\ UNCHANGED <<pc, assetVars, genVars, tokVars, lsVars, navVars, pipeVars, coolVars, convVars>>

WorkersDone ==
  /\ pc = "write_assets"
  /\ \A w \in Workers : workers[w].at = "done"
  /\ pc' = "write_done"
  /\ UNCHANGED <<workers, assetVars, genVars, tokVars, lsVars, navVars, pipeVars, coolVars, convVars>>

NextWrite ==
  \/ \E w \in Workers : PathExists(w)
  \/ \E w \in Workers : OpenFile(w)
  \/ \E w \in Workers : WriteByte(w)
  \/ \E w \in Workers : CloseFile(w)
  \/ \E w \in Workers : ReturnUrl(w)
  \/ WorkersDone

SpecWrite == InitWrite /\ [][NextWrite]_vars

\* the workers' steps are taken as long as one has a step to take
FairWrite == SpecWrite /\ WF_vars(NextWrite)

\* the file at the path each worker returned holds exactly the bytes of
\* that worker's payload
ReturnedPathsHoldPayload ==
  \A w \in Workers :
    /\ Drop(workers[w].returned, Len(UrlPrefix(public_assets)) + 1) \in DOMAIN assets_dir.files
    /\ assets_dir.files[Drop(workers[w].returned, Len(UrlPrefix(public_assets)) + 1)] = workers[w].raw

\* C14: whatever the interleaving of the two workers' steps, both workers
\* come to return (no step of a worker can fail or wait for the other),
\* and when both have returned the file at the path each returned holds
\* exactly the bytes of that worker's payload.
C14_ConcurrentWritesSafe ==
  /\ <>(pc = "write_done")
  /\ [](pc = "write_done" => ReturnedPathsHoldPayload)

\* both workers had the same payload, both found no file and both opened
\* and wrote it
C14_Witness ==
  /\ pc = "write_done"
  /\ workers[1].raw = workers[2].raw
  /\ Len(assets_dir.writes) = 2
  /\ assets_dir.writes[1] = assets_dir.writes[2]


(***************************************************************************)
(* The stages of the engine as the specification names them, each as the   *)
(* lines of the code that make it up, and the order convert_design and     *)
(* generate_code run them in for one screen's document.                    *)
(***************************************************************************)
\* the style removal and the letter-spacing clamp
TextPreprocessor(doc) ==
  LET d == RemovePlainStyles(doc)
  IN [i \in 1..Len(d) |->
        IF d[i].k = "style"
        THEN [d[i] EXCEPT !.rules = [r \in 1..Len(d[i].rules) |-> ClampRule(d[i].rules[r])]]
        ELSE d[i]]

\* defined_classes = _extract_defined_classes(html)
DefinedClassIndex(doc) == _extract_defined_classes(doc)

\* html = re.sub(r'class="([^"]+)"', _replace_class_attr, html)
ClassTokenRewriter(doc, defined) ==
  [i \in 1..Len(doc) |->
     IF doc[i].k = "open" /\ doc[i].a.hasClass /\ doc[i].a.cls # <<>>
     THEN [doc[i] EXCEPT !.a.cls = _replace_class_attr(doc[i].a.cls, defined)]
     ELSE doc[i]]

\* the tracking selectors rewritten and the doubled prefix collapsed
SelectorSynchronizer(doc, defined) ==
  [i \in 1..Len(doc) |->
     IF doc[i].k = "style"
     THEN [doc[i] EXCEPT !.rules =
             [r \in 1..Len(doc[i].rules) |->
                [doc[i].rules[r] EXCEPT
                   !.sel = FixDoubledTracking(_replace_tracking_selector(doc[i].rules[r].sel, defined))]]]
     ELSE doc[i]]

StructuralRepairPass(doc) == _relax_overflow_hidden(doc)

\* the first five stages, each on the text the stage before returned, the
\* rewriter and the synchronizer reading the set the index returned
FirstFiveStages(doc) ==
  CHOOSE out \in
    {CHOOSE o \in
       {StructuralRepairPass(SelectorSynchronizer(rewritten, defined)) :
          rewritten \in {ClassTokenRewriter(cleaned, defined)}} : TRUE :
       cleaned \in {TextPreprocessor(doc)},
       defined \in {DefinedClassIndex(TextPreprocessor(doc))}} : TRUE

\* a step of the pipeline before the linker runs the stage of its position
\* on the current text and moves to the next stage
EarlyStageStep ==
  /\ pc = "pipe_sanitize" => (pc' = "pipe_color" /\ html' = FirstFiveStages(html))
  /\ pc = "pipe_color" => (pc' = "pipe_fonts" /\ html' = _ensure_missing_color_utilities(html))
  /\ pc = "pipe_fonts" => (pc' = "pipe_images" /\ html' = _inject_google_fonts(html, tree))
  /\ pc = "pipe_images" => html' = _apply_image_meta(html, tree)

\* the linker and the externalizer likewise, and a screen's text goes
\* through the stages once: it enters at the first stage and is written
\* when the last has run
LateStageStep ==
  /\ pc = "pipe_links" => (pc' = "pipe_assets" /\ html' = _convert_nav_to_links(html, layout))
  /\ pc = "pipe_assets" =>
       (pc' = "pipe_done" /\ html' = _extract_data_uris(html, assets_dir, Sha1Hex16, public_assets).doc)
  /\ pc = "convert_screen" => pc' \in {"pipe_sanitize", "convert_done"}
  /\ pc = "pipe_done" => (pc' = "convert_screen" /\ out_files' = Append(out_files, [screen |-> screen_no, name |-> OutputFileName(layout[screen_no].screen), text |-> html]))

\* C15 as stated: the stages run once each in the order TextPreprocessor,
\* DefinedClassIndex, ClassTokenRewriter, SelectorSynchronizer,
\* StructuralRepairPass, color backfill, font injection, image metadata,
\* NavigationLinker, DataURIExternalizer, and each receives the text the
\* stage before it returned: the text NavigationLinker receives is the text
\* the image metadata pass returned.
C15_StagesInOrder ==
  /\ [][EarlyStageStep /\ LateStageStep]_vars
  /\ [](pc = "pipe_links" => html = prev)

\* the step between the image metadata pass and the linker:
\* _ensure_custom_class for text-custom-ffffff
ClassFixStep ==
  /\ pc = "pipe_images" => pc' = "pipe_custom"
  /\ pc = "pipe_custom" =>
       (pc' = "pipe_links"
          /\ html' = _ensure_custom_class(html, TEXT_CUSTOM_FFFFFF, COLOR, <<"#", "f", "f", "f", "f", "f", "f">>))

\* C15 amended: the stages run once each in the order stated, with the
\* backfill of the class text-custom-ffffff run between the image metadata
\* pass and NavigationLinker, each step receiving the text the step before
\* it returned.
C15_StagesInOrderWithClassFix == [][EarlyStageStep /\ ClassFixStep /\ LateStageStep]_vars

\* the backfill of text-custom-ffffff changed the text the image metadata
\* pass had returned before the linker received it
C15_Witness == pc = "pipe_links" /\ html # prev


\* C16: every token of the attribute that is in DefinedClassSet is written
\* back as it was, in the position it had among the tokens kept.
C16_DefinedTokensUnchanged ==
  pc = "class_attr_done" =>
    \A i \in 1..Len(classes) :
      classes[i] \in defined_classes =>
        /\ OutIndex(i) \in 1..Len(normalized)
        /\ normalized[OutIndex(i)] = classes[i]


(***************************************************************************)
(* The rule chain on attributes of tracking tokens.                        *)
(***************************************************************************)
TrackingTokenPool ==
  {<<"t", "r", "a", "c", "k", "i", "n", "g", "-", "[", "-", "1", ".", "5", "p", "x", "]">>, <<"t", "r", "a", "c", "k", "i", "n", "g", "-", "[", "1", ".", "5", "p", "x", "]">>, <<"t", "r", "a", "c", "k", "i", "n", "g", "-", "[", "+", "2", "p", "x", "]">>, <<"t", "r", "a", "c", "k", "i", "n", "g", "-", "[", "-", "0", "p", "x", "]">>,
   <<"t", "r", "a", "c", "k", "i", "n", "g", "-", "[", "-", "1", "\\", ".", "5", "p", "x", "]">>, <<"t", "r", "a", "c", "k", "i", "n", "g", "-", "n", "1", "_", "5">>, <<"t", "r", "a", "c", "k", "i", "n", "g", "-", "n", "e", "g", "-", "2">>, <<"f", "l", "e", "x">>}

TrackingDefinedPool ==
  {<<"t", "r", "a", "c", "k", "i", "n", "g", "-", "n", "1", "_", "5">>, <<"t", "r", "a", "c", "k", "i", "n", "g", "-", "p", "1", "_", "5">>, <<"t", "r", "a", "c", "k", "i", "n", "g", "-", "p", "2">>, <<"t", "r", "a", "c", "k", "i", "n", "g", "-", "[", "-", "1", ".", "5", "p", "x", "]">>}

InitTracking ==
  /\ CoolIdle
  /\ ConvIdle
  /\ pc = "class_attr"
  /\ classes \in SeqsUpTo(TrackingTokenPool, MaxTokens) \ {<<>>}
  /\ defined_classes \in SUBSET TrackingDefinedPool
  /\ normalized = <<>>
  /\ GenIdle
  /\ WorkersIdle
  /\ LsIdle
  /\ NavIdle
  /\ AssetIdle
  /\ PipeIdle

SpecTracking == InitTracking /\ [][NextTokens]_vars

\* the numbers N of the bracketed tokens, without their sign
TrackingMagnitudes == {<<"1", ".", "5">>, <<"2">>, <<"0">>}

\* C17: a token tracking-[<sign>N px] is written back as the flat name
\* tracking-n<N> for a negative N and tracking-p<N> for any other, the
\* point of N written as underscore, when that flat name is in
\* DefinedClassSet, and is written back as it was when it is not.
C17_TrackingFlatIffDefined ==
  pc = "class_attr_done" =>
    \A i \in 1..Len(classes) : \A sign \in {<<>>, <<"-">>, <<"+">>} : \A n \in TrackingMagnitudes :
      classes[i] = <<"t", "r", "a", "c", "k", "i", "n", "g", "-", "[">> \o sign \o n \o <<"p", "x", "]">> =>
        LET flat == <<"t", "r", "a", "c", "k", "i", "n", "g", "-">> \o (IF sign = <<"-">> THEN <<"n">> ELSE <<"p">>)
                      \o ReplaceAll(n, <<".">>, <<"_">>)
        IN normalized[OutIndex(i)] = IF flat \in defined_classes THEN flat ELSE classes[i]

\* of two bracketed tokens one was written back flat, its flat name being
\* defined, and the other as it was
C17_Witness ==
  /\ pc = "class_attr_done"
  /\ classes = <<<<"t", "r", "a", "c", "k", "i", "n", "g", "-", "[", "-", "1", ".", "5", "p", "x", "]">>, <<"t", "r", "a", "c", "k", "i", "n", "g", "-", "[", "1", ".", "5", "p", "x", "]">>>>
  /\ defined_classes = {<<"t", "r", "a", "c", "k", "i", "n", "g", "-", "n", "1", "_", "5">>}
  /\ normalized = <<<<"t", "r", "a", "c", "k", "i", "n", "g", "-", "n", "1", "_", "5">>, <<"t", "r", "a", "c", "k", "i", "n", "g", "-", "[", "1", ".", "5", "p", "x", "]">>>>


(***************************************************************************)
(* The image metadata pass of generate_code's HTML branch on its own:      *)
(* convert_design hands generate_code the layout of one screen (page,      *)
(* screen, box, tree) and _apply_image_meta runs on the document with that *)
(* layout.                                                                 *)
(***************************************************************************)
LOGO_PNG == <<"l", "o", "g", "o", ".", "p", "n", "g">>

OTHER_PNG == <<"o", "t", "h", "e", "r", ".", "p", "n", "g">>

FILL == <<"F", "I", "L", "L">>

CROP == <<"C", "R", "O", "P">>

FIT == <<"F", "I", "T">>

\* the box of the screen
ScreenBox == [w |-> 100, h |-> 100]

\* boxes of image nodes: under 0.6 of the screen both ways, over it both
\* ways, under it one way only
ImageBoxes == {[w |-> 10, h |-> 10], [w |-> 80, h |-> 80], [w |-> 10, h |-> 80]}

\* image nodes of one url: every scale mode (or none), with or without a
\* corner radius
ImageNodes(url) ==
  {Node(<<>>, 0, url, scale, radius, b.w, b.h) :
     scale \in {FILL, CROP, FIT, <<>>}, radius \in {-1, 8}, b \in ImageBoxes}

\* trees of the screen: no image, one image, or one image and the logo
ImageTrees ==
  {<<>>} \cup {<<n>> : n \in ImageNodes(HERO_PNG)}
         \cup {<<n, Node(<<>>, 0, LOGO_PNG, FIT, -1, 10, 10)>> : n \in ImageNodes(HERO_PNG)}

\* documents: an img of a known or unknown src, with or without fit classes,
\* bare or directly inside a div wrapper
ImageDocs ==
  {wrap.open \o <<OpenTag(IMG, [SrcAttr(src, "\"") EXCEPT !.hasClass = cls # <<>>, !.cls = cls])>>
     \o wrap.close :
     src \in {HERO_PNG, LOGO_PNG, OTHER_PNG},
     cls \in {<<>>, <<OBJECT_COVER>>, <<OBJECT_FILL, <<"w", "-", "4">>>>},
     wrap \in {[open |-> <<>>, close |-> <<>>],
               [open |-> <<OpenTag(DIV, ClassAttr(<<OVERFLOW_HIDDEN>>))>>,
                close |-> <<CloseTag(DIV)>>],
               [open |-> <<OpenTag(DIV, ClassAttr(<<RELATIVE, OVERFLOW_HIDDEN>>))>>,
                close |-> <<CloseTag(DIV)>>]}}

InitImages ==
  /\ CoolIdle
  /\ ConvIdle
  /\ pc = "images"
  /\ GenIdle
  /\ WorkersIdle
  /\ TokIdle
  /\ LsIdle
  /\ AssetIdle
  /\ tree \in ImageTrees
  /\ layout = <<[screen |-> HOME, box |-> ScreenBox, tree |-> tree]>>
  /\ screen_no = 1
  /\ run = 0
  /\ first_out = <<>>
  /\ out_files = <<>>
  /\ route_index = <<>>
  /\ anchors = <<>>
  /\ source \in ImageDocs
  /\ html = source
  /\ prev = source

\* html = _apply_image_meta(html, layout) of generate_code
ApplyImageMeta ==
  /\ pc = "images"
  /\ pc' = "images_done"
  /\ prev' = html
  /\ html' = _apply_image_meta(html, layout[screen_no].tree)
  /\ UNCHANGED <<layout, route_index, source, anchors, tokVars, lsVars, assetVars, pipeVars,
                 genVars, workers, coolVars, convVars>>

NextImages == ApplyImageMeta

SpecImages == InitImages /\ [][NextImages]_vars

\* the img tags of a document
IsImgTag(x) == x.k = "open" /\ x.name = IMG /\ x.a.hasSrc

\* the urls with an ImageMeta record: the image urls of the screen's tree
MetaUrls == {tree[n].imageUrl : n \in 1..Len(tree)} \ {<<>>}

\* the class list of a tag, as a set
ClassSet(x) == IF x.a.hasClass THEN Range(x.a.cls) ELSE {}

\* C18: in the HTML conversion flow an image whose scale mode is FILL or
\* CROP receives object-contain when its box is under 60% of its screen's
\* width and under 60% of its screen's height, and object-cover otherwise;
\* an image whose scale mode is FIT receives object-contain.
C18_FitClassByScreenShare ==
  pc = "images_done" =>
    \A i \in 1..Len(source) : \A n \in 1..Len(tree) :
      (IsImgTag(source[i]) /\ source[i].a.src = tree[n].imageUrl) =>
        LET box   == layout[screen_no].box
            small == 10 * tree[n].w < 6 * box.w /\ 10 * tree[n].h < 6 * box.h
        IN /\ (tree[n].imageScale \in {FILL, CROP} /\ small) => OBJECT_CONTAIN \in ClassSet(html[i])
           /\ (tree[n].imageScale \in {FILL, CROP} /\ ~small) => OBJECT_COVER \in ClassSet(html[i])
           /\ tree[n].imageScale = FIT => OBJECT_CONTAIN \in ClassSet(html[i])

\* C19: the image fit pass changes only image elements whose src has an
\* ImageMeta record; an img whose src is not an image url of the layout
\* keeps its class attribute, object-cover or object-fill included.
C19_UnknownSrcKeepsClasses ==
  pc = "images_done" =>
    \A i \in 1..Len(source) :
      (IsImgTag(source[i]) /\ source[i].a.src \notin MetaUrls) =>
        /\ html[i].a.hasClass = source[i].a.hasClass
        /\ html[i].a.cls = source[i].a.cls

\* C20: after the image metadata pass a div wrapper that directly contains
\* an img with known ImageMeta and no corner radius no longer carries
\* overflow-hidden, and a wrapper whose image has a corner radius keeps it.
C20_WrapperUnclipped ==
  pc = "images_done" =>
    \A i \in 1..(Len(source) - 1) : \A n \in 1..Len(tree) :
      (/\ source[i].k = "open" /\ source[i].name = DIV
       /\ OVERFLOW_HIDDEN \in ClassSet(source[i])
       /\ IsImgTag(source[i + 1]) /\ source[i + 1].a.src = tree[n].imageUrl) =>
        IF tree[n].radius = -1 THEN OVERFLOW_HIDDEN \notin ClassSet(html[i])
        ELSE OVERFLOW_HIDDEN \in ClassSet(html[i])

(***************************************************************************)
(* Font injection of generate_code's HTML branch on its own:               *)
(* _inject_google_fonts on a document, with the layout of one screen.      *)
(***************************************************************************)
INTER == <<"I", "n", "t", "e", "r">>

\* trees of the screen: text nodes with a font family and a weight (0: none)
FontTrees ==
  {<<>>,
   <<Node(WORK_SANS, 400, <<>>, <<>>, -1, 0, 0)>>,
   <<Node(WORK_SANS, 700, <<>>, <<>>, -1, 0, 0), Node(WORK_SANS, 400, <<>>, <<>>, -1, 0, 0)>>,
   <<Node(WORK_SANS, 400, <<>>, <<>>, -1, 0, 0), Node(INTER, 0, <<>>, <<>>, -1, 0, 0)>>,
   <<Node(INTER, 700, <<>>, <<>>, -1, 0, 0)>>}

\* a font stylesheet link the model wrote itself
INTER_LINK ==
  OpenTag(LINK, [NoAttrs EXCEPT !.hasRel = TRUE, !.hasHref = TRUE,
                                !.href = <<"h", "t", "t", "p", "s", ":", "/", "/", "f", "o", "n", "t", "s", ".", "g", "o", "o", "g", "l", "e", "a", "p", "i", "s", ".", "c", "o", "m", "/", "c", "s", "s", "2", "?", "f", "a", "m", "i", "l", "y", "=", "I", "n", "t", "e", "r", "&", "d", "i", "s", "p", "l", "a", "y", "=", "s", "w", "a", "p">>])

\* what stands in the head before the style block; "none" is a document
\* without a head
FontHeads == {"none", "empty", "link"}

\* style blocks with an @apply of a font name, or no style block
FontStyles ==
  {<<>>,
   <<StyleBlock(TRUE, <<Rule(<<"t", "i", "t", "l", "e">>, APPLY, <<"f", "o", "n", "t", "-", "[", "'", "W", "o", "r", "k", "_", "S", "a", "n", "s", "'", "]">>)>>)>>,
   <<StyleBlock(TRUE, <<Rule(<<"t", "i", "t", "l", "e">>, APPLY, <<"f", "o", "n", "t", "-", "[", "\"", "I", "n", "t", "e", "r", "\"", "]">>)>>)>>,
   <<StyleBlock(TRUE, <<Rule(<<"t", "i", "t", "l", "e">>, APPLY, <<"f", "o", "n", "t", "-", "[", "'", "R", "o", "b", "o", "t", "o", "'", "]">>),
                        Rule(<<"b", "t", "n">>, COLOR, <<"r", "e", "d">>)>>)>>}

\* class attributes of the paragraph in the body
FontClassLists ==
  {<<<<"f", "o", "n", "t", "-", "[", "'", "W", "o", "r", "k", "_", "S", "a", "n", "s", "'", "]">>, FLEX>>,
   <<<<"f", "o", "n", "t", "-", "w", "o", "r", "k", "-", "s", "a", "n", "s">>>>,
   <<<<"f", "o", "n", "t", "-", "[", "'", "R", "o", "b", "o", "t", "o", "'", "]">>>>,
   <<FLEX, <<"f", "o", "n", "t", "-", "i", "n", "t", "e", "r">>>>,
   <<<<"f", "o", "n", "t", "-", "b", "o", "l", "d">>, <<"f", "o", "n", "t", "-", "W", "o", "r", "k", "-", "S", "a", "n", "s">>>>}

FontDoc(head, style, cls) ==
  <<OpenTag(HTML, NoAttrs)>>
    \o (IF head = "none" THEN <<>>
        ELSE <<OpenTag(HEAD, NoAttrs)>> \o (IF head = "link" THEN <<INTER_LINK>> ELSE <<>>)
               \o style \o <<CloseTag(HEAD)>>)
    \o <<OpenTag(BODY, NoAttrs)>> \o (IF head = "none" THEN style ELSE <<>>)
    \o <<OpenTag(<<"p">>, ClassAttr(cls)), TextRun(HOME), CloseTag(<<"p">>),
         CloseTag(BODY), CloseTag(HTML)>>

FontDocs == {FontDoc(head, style, cls) : head \in FontHeads, style \in FontStyles, cls \in FontClassLists}

InitFonts ==
  /\ CoolIdle
  /\ ConvIdle
  /\ pc = "fonts"
  /\ GenIdle
  /\ WorkersIdle
  /\ TokIdle
  /\ LsIdle
  /\ AssetIdle
  /\ tree \in FontTrees
  /\ layout = <<[screen |-> HOME, tree |-> tree]>>
  /\ screen_no = 1
  /\ run = 0
  /\ first_out = <<>>
  /\ out_files = <<>>
  /\ route_index = <<>>
  /\ anchors = <<>>
  /\ source \in FontDocs
  /\ html = source
  /\ prev = source

\* _inject_google_fonts(html, layout) of generate_code
InjectGoogleFonts ==
  /\ pc = "fonts"
  /\ pc' = "fonts_done"
  /\ prev' = html
  /\ html' = _inject_google_fonts(html, layout[screen_no].tree)
  /\ UNCHANGED <<layout, route_index, source, anchors, tokVars, lsVars, assetVars, pipeVars,
                 genVars, workers, coolVars, convVars>>

NextFonts == InjectGoogleFonts

SpecFonts == InitFonts /\ [][NextFonts]_vars

\* FontRegistry: the families of the layout, each with its observed weights
FontRegistry == _collect_fonts_from_layout(tree, <<>>)

\* a name without case, spaces, hyphens and the underscores that stand for
\* spaces in a class token
Squash(name) == SelectSeq(Lower(name), LAMBDA c : c \notin {" ", "-", "_"})

\* the font name a class token carries: the text between the quotes of
\* font-['...'] or font-["..."], or what follows font-; <<>> when the token
\* is no font token
FontTokenName(token) ==
  IF \E q \in {"'", "\""} :
       StartsWith(token, FONT_DASH \o <<"[", q>>) /\ EndsWith(token, <<q, "]">>)
  THEN SubSeq(token, Len(FONT_DASH) + 3, Len(token) - 2)
  ELSE IF StartsWith(token, FONT_DASH) THEN Drop(token, Len(FONT_DASH))
  ELSE <<>>

\* the token the claim asks for
ExpectedFontToken(token) ==
  LET name  == FontTokenName(token)
      match == {i \in 1..Len(FontRegistry) : Squash(FontRegistry[i].family) = Squash(name)}
  IN IF name = <<>> \/ match = {} THEN token
     ELSE FONT_DASH \o Squash(FontRegistry[CHOOSE i \in match : TRUE].family)

\* the class lists of a document, in document order
ClassLists(doc) == SelectSeq(doc, LAMBDA x : x.k = "open" /\ x.a.hasClass)

\* C21: a font-family class token, bracketed or literal hyphenated, is
\* rewritten to font-<slug> of a FontRegistry family whenever its name
\* equals that family's name after removing case, spaces and hyphens;
\* tokens that match no registry family are left unchanged.
C21_FontTokensNormalized ==
  pc = "fonts_done" =>
    /\ Len(ClassLists(html)) = Len(ClassLists(source))
    /\ \A j \in 1..Len(ClassLists(source)) :
         ClassLists(html)[j].a.cls =
           [k \in 1..Len(ClassLists(source)[j].a.cls) |->
              ExpectedFontToken(ClassLists(source)[j].a.cls[k])]

\* the style blocks of a document, in document order
StyleBlocks(doc) == SelectSeq(doc, LAMBDA x : x.k = "style")

\* C22: an @apply directive that references a bracketed font name is
\* replaced, after font injection completes, by a direct font-family
\* declaration that names the referenced family itself, whether or not that
\* family is in FontRegistry.
C22_ApplyNamesFamily ==
  pc = "fonts_done" =>
    \A b \in 1..Len(StyleBlocks(source)) : \A r \in 1..Len(StyleBlocks(source)[b].rules) :
      LET rule == StyleBlocks(source)[b].rules[r]
          name == FontTokenName(rule.val)
      IN (rule.prop = APPLY /\ StartsWith(rule.val, FONT_DASH \o <<"[">>)) =>
           /\ Len(StyleBlocks(html)) >= b
           /\ StyleBlocks(html)[b].rules[r].prop = FONT_FAMILY
           /\ StyleBlocks(html)[b].rules[r].val = FamilyValue(ReplaceAll(name, <<"_">>, <<" ">>))

\* the font stylesheet links of a document
FontLinks(doc) ==
  {i \in 1..Len(doc) : /\ doc[i].k = "open" /\ doc[i].name = LINK /\ doc[i].a.hasHref
                        /\ Contains(doc[i].a.href, FONTS_HOST)}

\* family=Name+With+Plus:wght@w1;w2, the weights ascending
FamilyRequest(f) ==
  <<"f", "a", "m", "i", "l", "y", "=">> \o ReplaceAll(f.family, <<" ">>, <<"+">>)
    \o (IF f.weights = {} THEN <<>> ELSE <<":", "w", "g", "h", "t", "@">> \o Join(SortedWeights(f.weights), <<";">>))

\* C23: when FontRegistry is non-empty and the document contains no font
\* stylesheet link, the document returned by font injection contains a font
\* stylesheet link that requests every registry family with its observed
\* weights in ascending order; when the document already has such a link, no
\* second link is added.
C23_FontLinkInjected ==
  pc = "fonts_done" =>
    /\ (Len(FontRegistry) # 0 /\ FontLinks(source) = {}) =>
         \E i \in FontLinks(html) : \A n \in 1..Len(FontRegistry) :
           Contains(html[i].a.href, FamilyRequest(FontRegistry[n]))
    /\ FontLinks(source) # {} => Cardinality(FontLinks(html)) = Cardinality(FontLinks(source))

(***************************************************************************)
(* _replace_class_attr on attributes that hold the stray token html and a  *)
(* token for every rule of the chain.                                      *)
(***************************************************************************)
OrderTokenPool ==
  {HTML_TOKEN, FLEX, <<"g", "a", "p", "-", "3", "0">>, <<"p", "-", "l", "-", "4", "1">>, <<"h", "-", "2", "0", "p", "x">>, <<"b", "g", "-", "c", "u", "s", "t", "o", "m", "-", "g", "r", "a", "y", "-", "d", "a", "r", "k">>, <<"t", "e", "x", "t", "-", "1", "8">>,
   <<"t", "r", "a", "c", "k", "i", "n", "g", "-", "n", "e", "g", "-", "2">>, <<"w", "-", "1", "0", "0">>, <<"l", "e", "a", "d", "i", "n", "g", "-", "l", "i", "n", "e", "-", "h", "e", "i", "g", "h", "t", "-", "2", "0">>, <<"t", "r", "a", "c", "k", "i", "n", "g", "-", "[", "-", "1", ".", "5", "p", "x", "]">>}

OrderDefinedPool == {<<"g", "a", "p", "-", "3", "0">>, <<"t", "r", "a", "c", "k", "i", "n", "g", "-", "n", "1", "_", "5">>, <<"b", "g", "-", "c", "u", "s", "t", "o", "m", "-", "g", "r", "e", "y", "-", "d", "a", "r", "k">>}

InitOrder ==
  /\ CoolIdle
  /\ ConvIdle
  /\ GenIdle
  /\ WorkersIdle
  /\ pc = "class_attr"
  /\ classes \in SeqsUpTo(OrderTokenPool, MaxTokens) \ {<<>>}
  /\ defined_classes \in SUBSET OrderDefinedPool
  /\ normalized = <<>>
  /\ LsIdle
  /\ NavIdle
  /\ AssetIdle
  /\ PipeIdle

SpecOrder == InitOrder /\ [][NextTokens]_vars

\* C24: the rewritten attribute holds one token per input token other than
\* the stray marker token html, in the input order, each being the
\* rule-chain image of the input token at that position; no token is merged,
\* duplicated or reordered.
C24_TokenOrderAndCount ==
  pc = "class_attr_done" =>
    /\ Len(normalized) = Cardinality({i \in 1..Len(classes) : classes[i] # HTML_TOKEN})
    /\ \A i \in 1..Len(classes) :
         classes[i] # HTML_TOKEN =>
           normalized[OutIndex(i)] = FixCompoundPrefixes(RuleChain(classes[i], defined_classes))
    /\ \A k \in 1..Len(normalized) :
         normalized[k] # <<>> /\ \A c \in 1..Len(normalized[k]) : normalized[k][c] \notin Whitespace

\* an attribute with the stray token in front of two different tokens that
\* the rules rewrite
C24_Witness ==
  /\ pc = "class_attr_done"
  /\ \E i, j \in 1..Len(classes) :
       /\ i < j /\ classes[i] = HTML_TOKEN /\ classes[j] # HTML_TOKEN
       /\ normalized[OutIndex(j)] # classes[j]

(***************************************************************************)
(* The comment repair and comment removal at the head of                   *)
(* _sanitize_html_output, on the text of a document character by           *)
(* character (source and html hold the text itself here).  The texts hold  *)
(* no class attribute, style block or px value, so the rest of             *)
(* _sanitize_html_output returns them as they are.                         *)
(***************************************************************************)
MaxPieces == 3

COMMENT_OPEN == <<"<", "!", "-", "-">>

COMMENT_CLOSE == <<"-", "-", ">">>

\* pieces of text: markup, well-formed comments without and with markup in
\* them, and a comment opener that is never closed
CommentPieces ==
  {<<"<", "p", ">", "H", "i", "<", "/", "p", ">">>, <<"<", "d", "i", "v", ">">>, <<"<", "/", "d", "i", "v", ">">>, <<"<", "!", "-", "-", " ", "n", "o", "t", "e", " ", "-", "-", ">">>, <<"<", "!", "-", "-", "z", "z", "-", "-", ">">>,
   <<"<", "!", "-", "-", " ", "<", "b", ">", "o", "l", "d", "<", "/", "b", ">", " ", "-", "-", ">">>, <<"<", "!", "-", "-", " ", "M", "a", "i", "n">>}

CommentTexts == {Concat(ps) : ps \in SeqsUpTo(CommentPieces, MaxPieces) \ {<<>>}}

\* re.sub(r"<!--\s*[^<]*<", "<", s): an opener, everything up to the next
\* "<", and that "<" become "<"; the scan goes on behind it
RECURSIVE RepairComments(_)
RepairComments(s) ==
  IF Len(s) = 0 THEN s
  ELSE LET j == Find(s, Len(COMMENT_OPEN) + 1, {"<"})
       IN IF OccursAt(s, COMMENT_OPEN, 1) /\ j <= Len(s)
          THEN <<"<">> \o RepairComments(Drop(s, j))
          ELSE <<s[1]>> \o RepairComments(Drop(s, 1))

\* the first position from i on where p occurs in s, Len(s) + 1 when none
RECURSIVE FindText(_, _, _)
FindText(s, i, p) ==
  IF i > Len(s) THEN Len(s) + 1 ELSE IF OccursAt(s, p, i) THEN i ELSE FindText(s, i + 1, p)

\* re.sub(r"<!--.*?-->", "", s, flags=re.DOTALL)
RECURSIVE StripComments(_)
StripComments(s) ==
  IF Len(s) = 0 THEN s
  ELSE LET k == FindText(s, Len(COMMENT_OPEN) + 1, COMMENT_CLOSE)
       IN IF OccursAt(s, COMMENT_OPEN, 1) /\ k <= Len(s)
          THEN StripComments(Drop(s, k + Len(COMMENT_CLOSE) - 1))
          ELSE <<s[1]>> \o StripComments(Drop(s, 1))

InitComments ==
  /\ CoolIdle
  /\ ConvIdle
  /\ pc = "comments"
  /\ GenIdle
  /\ WorkersIdle
  /\ TokIdle
  /\ LsIdle
  /\ AssetIdle
  /\ PipeIdle
  /\ layout = <<>> /\ route_index = <<>> /\ prev = <<>> /\ anchors = <<>>
  /\ source \in CommentTexts
  /\ html = source

\* the two substitutions, one after the other
PreprocessComments ==
  /\ pc = "comments"
  /\ pc' = "comments_done"
  /\ \E repaired \in {RepairComments(html)} : html' = StripComments(repaired)
  /\ UNCHANGED <<layout, route_index, source, prev, anchors, tokVars, lsVars, assetVars, pipeVars,
                 genVars, workers, coolVars, convVars>>

NextComments == PreprocessComments

SpecComments == InitComments /\ [][NextComments]_vars

\* the well-formed comments of a text from position i on, as HTML reads
\* them: an opener and the first closer behind it; <<i, k>> are the
\* positions of the opener and of the closer
RECURSIVE CommentSpans(_, _)
CommentSpans(s, i) ==
  IF i > Len(s) THEN {}
  ELSE LET k == FindText(s, i + Len(COMMENT_OPEN), COMMENT_CLOSE)
       IN IF OccursAt(s, COMMENT_OPEN, i) /\ k <= Len(s)
          THEN {<<i, k>>} \cup CommentSpans(s, k + Len(COMMENT_CLOSE))
          ELSE CommentSpans(s, i + 1)

\* the closers of a text
Closers(s) == {i \in 1..Len(s) : OccursAt(s, COMMENT_CLOSE, i)}

\* C26: a well-formed comment is removed entirely by the preprocessor: none
\* of the text that stood between its open and close markers is part of the
\* document afterwards and no orphan close marker is left behind, also when
\* the comment's content contains markup.  (The content of every comment of
\* CommentPieces occurs nowhere outside comments.)
C26_CommentsRemoved ==
  pc = "comments_done" =>
    /\ \A span \in CommentSpans(source, 1) :
         LET content == Strip(SubSeq(source, span[1] + Len(COMMENT_OPEN), span[2] - 1))
         IN content = <<>> \/ ~Contains(html, content)
    /\ Cardinality(Closers(html)) <=
         Cardinality(Closers(source) \ {span[2] : span \in CommentSpans(source, 1)})


\* ---------------------------------------------------------------------
\* The image-fetch cooldown of get_figma_images (Services/image.py).
\* Callers are the threads that serve /convert; their calls may overlap.
\* ---------------------------------------------------------------------

FIGMA_IMAGE_MAX_RETRIES == 2

FIGMA_IMAGE_COOLDOWN_SECONDS == 60

\* the clock advances in steps of TickSeconds up to MaxTime
TickSeconds == 20

MaxTime == 80

\* the callers, the calls they make in all, and the chunks of 100 node ids
\* of one call
MaxCalls == 3

MaxChunks == 2

Callers == {1, 2}

FileKeys == {"fileA", "fileB"}

\* the answers of the images endpoint: success, rate limit, another error
HTTP_RATE_LIMIT == 429

Statuses == {200, HTTP_RATE_LIMIT, 500}

NoCall ==
  [at |-> "idle", file_key |-> "", chunks |-> 0, chunk |-> 0, attempt |-> 0, sent |-> 0,
   chunk_sent |-> 0, images |-> 0, in_window |-> FALSE, n |-> 0]

CallsMade == calls[1].n + calls[2].n

_cooldown_active_any(file_key) ==
  \E k \in FileKeys :
    /\ figma_image_cooldown[k] # 0
    /\ (now - figma_image_cooldown[k]) < FIGMA_IMAGE_COOLDOWN_SECONDS

_cooldown_active(file_key) ==
  LET last == figma_image_cooldown[file_key]
  IN IF last = 0 THEN FALSE
     ELSE (now - last) < FIGMA_IMAGE_COOLDOWN_SECONDS

_mark_cooldown(file_key) == [figma_image_cooldown EXCEPT ![file_key] = now]

\* now lies in the cooldown window of a file key: a rate-limit answer to a
\* last attempt for that key was received less than
\* FIGMA_IMAGE_COOLDOWN_SECONDS ago
InWindow(k) ==
  \E m \in marks : m.key = k /\ now - m.time < FIGMA_IMAGE_COOLDOWN_SECONDS

InitCooldown ==
  /\ ConvIdle
  /\ pc = "cooldown"
  /\ GenIdle
  /\ WorkersIdle
  /\ TokIdle
  /\ LsIdle
  /\ NavIdle
  /\ AssetIdle
  /\ PipeIdle
  /\ figma_image_cooldown = [k \in FileKeys |-> 0]
  /\ now = TickSeconds
  /\ calls = [c \in Callers |-> NoCall]
  /\ marks = {}

\* get_figma_images up to its first request: no node ids or an active
\* cooldown return the empty map at once
CallImages(c) ==
  /\ pc = "cooldown"
  /\ calls[c].at # "request"
  /\ CallsMade < MaxCalls
  /\ \E k \in FileKeys, ids \in 0..MaxChunks :
       calls' = [calls EXCEPT ![c] =
                   [at |-> IF ids = 0 \/ _cooldown_active(k) THEN "returned" ELSE "request",
                    file_key |-> k, chunks |-> ids, chunk |-> 1, attempt |-> 0, sent |-> 0,
                    chunk_sent |-> 0, images |-> 0,
                    in_window |-> InWindow(k), n |-> calls[c].n + 1]]
  /\ UNCHANGED <<pc, figma_image_cooldown, now, marks, tokVars, lsVars, navVars, assetVars,
                 pipeVars, genVars, workers, convVars>>

\* one request of the retry loop and what the loop does with its answer
FigmaAnswers(c) ==
  /\ pc = "cooldown"
  /\ calls[c].at = "request"
  /\ \E status \in Statuses :
       LET call == [calls[c] EXCEPT !.sent = @ + 1, !.chunk_sent = @ + 1]
           last_attempt == status = HTTP_RATE_LIMIT /\ call.attempt = FIGMA_IMAGE_MAX_RETRIES
       IN /\ marks' = IF last_attempt
                      THEN marks \cup {[key |-> call.file_key, time |-> now]}
                      ELSE marks
          /\ IF status = HTTP_RATE_LIMIT
             THEN IF call.attempt < FIGMA_IMAGE_MAX_RETRIES
                  THEN /\ calls' = [calls EXCEPT ![c] = [call EXCEPT !.attempt = @ + 1]]
                       /\ UNCHANGED figma_image_cooldown
                  ELSE /\ figma_image_cooldown' = _mark_cooldown(call.file_key)
                       /\ calls' = [calls EXCEPT ![c] = [call EXCEPT !.at = "returned"]]
             ELSE IF status >= 400
             THEN /\ calls' = [calls EXCEPT ![c] = [call EXCEPT !.at = "raised"]]
                  /\ UNCHANGED figma_image_cooldown
             ELSE /\ calls' = [calls EXCEPT ![c] =
                                 IF call.chunk < call.chunks
                                 THEN [call EXCEPT !.images = @ + 1, !.chunk = @ + 1,
                                                   !.attempt = 0, !.chunk_sent = 0]
                                 ELSE [call EXCEPT !.images = @ + 1, !.at = "returned"]]
                  /\ UNCHANGED figma_image_cooldown
  /\ UNCHANGED <<pc, now, tokVars, lsVars, navVars, assetVars, pipeVars, genVars, workers,
                 convVars>>

\* time passes: between two calls, during a request, during a sleep
Tick ==
  /\ pc = "cooldown"
  /\ now + TickSeconds <= MaxTime
  /\ now' = now + TickSeconds
  /\ UNCHANGED <<pc, figma_image_cooldown, calls, marks, tokVars, lsVars, navVars, assetVars,
                 pipeVars, genVars, workers, convVars>>

NextCooldown ==
  \/ \E c \in Callers : CallImages(c)
  \/ \E c \in Callers : FigmaAnswers(c)
  \/ Tick

SpecCooldown == InitCooldown /\ [][NextCooldown]_vars

\* C29: once a call has received a rate-limit answer on the last allowed
\* attempt of a chunk for a file key, every call for that file key that
\* begins in the following cooldown window sends no request and returns the
\* empty map; the cooldown is recorded only in that case; a chunk is
\* requested at most FIGMA_IMAGE_MAX_RETRIES + 1 times; and a call with node
\* ids that begins outside the window of its own file key, whatever the
\* other file keys' cooldowns, sends its requests.
C29_CooldownWindow ==
  pc = "cooldown" =>
    /\ \A c \in Callers : calls[c].in_window =>
         calls[c].sent = 0 /\ calls[c].at = "returned" /\ calls[c].images = 0
    /\ \A k \in FileKeys : figma_image_cooldown[k] # 0 =>
         [key |-> k, time |-> figma_image_cooldown[k]] \in marks
    /\ \A c \in Callers : calls[c].chunk_sent <= FIGMA_IMAGE_MAX_RETRIES + 1
    /\ \A c \in Callers : (calls[c].n > 0 /\ calls[c].chunks > 0 /\ ~calls[c].in_window) =>
         (calls[c].at = "request" \/ calls[c].sent >= 1)

\* a call in the window of fileA has returned the empty map without a
\* request while a call for fileB got its images
C29_Witness ==
  /\ pc = "cooldown"
  /\ \E c, d \in Callers :
       /\ calls[c].file_key = "fileA" /\ calls[c].in_window /\ calls[c].chunks > 0
       /\ calls[c].at = "returned" /\ calls[c].sent = 0
       /\ calls[d].file_key = "fileB"
       /\ calls[d].at = "returned" /\ calls[d].images = calls[d].chunks /\ calls[d].chunks > 0
       /\ figma_image_cooldown["fileB"] = 0


\* ---------------------------------------------------------------------
\* Two /convert requests (main.py, convert_design).  The handler is a
\* plain function, which the framework runs on a thread of its pool, so
\* the statements of two requests interleave.  Both work in the directory
\* generated_site and on the archive figma_site.zip.
\* ---------------------------------------------------------------------

Requests == {1, 2}

\* the files of a design: one per screen
Designs == {<<"home.html">>, <<"about.html">>, <<"home.html", "about.html">>}

NoDir == [exists |-> FALSE, files |-> {}]

NoRequest == [at |-> "idle", design |-> <<>>, i |-> 0, overlap |-> FALSE, archive |-> {}]

Running(r) == reqs[r].at \notin {"idle", "returned", "failed"}

Other(r) == CHOOSE o \in Requests : o # r

InitRequests ==
  /\ CoolIdle
  /\ pc = "requests"
  /\ GenIdle
  /\ WorkersIdle
  /\ TokIdle
  /\ LsIdle
  /\ NavIdle
  /\ AssetIdle
  /\ PipeIdle
  /\ site_dir = NoDir
  /\ zip_file = NoDir
  /\ reqs = [r \in Requests |-> NoRequest]

\* the request arrives and the handler runs up to the output folder
Convert(r) ==
  /\ pc = "requests"
  /\ reqs[r].at = "idle"
  /\ \E design \in Designs :
       reqs' = [o \in Requests |->
                  IF o = r
                  THEN [NoRequest EXCEPT !.at = "exists", !.design = design, !.i = 1,
                                         !.overlap = Running(Other(r))]
                  ELSE [reqs[o] EXCEPT !.overlap = @ \/ Running(o)]]
  /\ UNCHANGED <<pc, site_dir, zip_file, tokVars, lsVars, navVars, assetVars, pipeVars, genVars,
                 workers, coolVars>>

\* if os.path.exists(out_dir)
CheckOutDir(r) ==
  /\ pc = "requests"
  /\ reqs[r].at = "exists"
  /\ reqs' = [reqs EXCEPT ![r].at = IF site_dir.exists THEN "rmtree" ELSE "makedirs"]
  /\ UNCHANGED <<pc, site_dir, zip_file, tokVars, lsVars, navVars, assetVars, pipeVars, genVars,
                 workers, coolVars>>

\* shutil.rmtree(out_dir); FileNotFoundError when the directory has gone
RemoveOutDir(r) ==
  /\ pc = "requests"
  /\ reqs[r].at = "rmtree"
  /\ IF site_dir.exists
     THEN site_dir' = NoDir /\ reqs' = [reqs EXCEPT ![r].at = "makedirs"]
     ELSE reqs' = [reqs EXCEPT ![r].at = "failed"] /\ UNCHANGED site_dir
  /\ UNCHANGED <<pc, zip_file, tokVars, lsVars, navVars, assetVars, pipeVars, genVars,
                 workers, coolVars>>

\* os.makedirs(out_dir); FileExistsError when the directory is there
MakeOutDir(r) ==
  /\ pc = "requests"
  /\ reqs[r].at = "makedirs"
  /\ IF site_dir.exists
     THEN reqs' = [reqs EXCEPT ![r].at = "failed"] /\ UNCHANGED site_dir
     ELSE site_dir' = [exists |-> TRUE, files |-> {}] /\ reqs' = [reqs EXCEPT ![r].at = "extract"]
  /\ UNCHANGED <<pc, zip_file, tokVars, lsVars, navVars, assetVars, pipeVars, genVars,
                 workers, coolVars>>

\* generate_code and _extract_data_uris for the next screen; the latter
\* makes the assets directory and with it the output directory
MakeAssetsDir(r) ==
  /\ pc = "requests"
  /\ reqs[r].at = "extract"
  /\ site_dir' = [site_dir EXCEPT !.exists = TRUE]
  /\ reqs' = [reqs EXCEPT ![r].at = "write"]
  /\ UNCHANGED <<pc, zip_file, tokVars, lsVars, navVars, assetVars, pipeVars, genVars,
                 workers, coolVars>>

\* the page is written into the output directory
WritePage(r) ==
  /\ pc = "requests"
  /\ reqs[r].at = "write"
  /\ IF site_dir.exists
     THEN LET filename == reqs[r].design[reqs[r].i]
          IN /\ site_dir' = [site_dir EXCEPT !.files =
                               {f \in @ : f[1] # filename} \cup {<<filename, r>>}]
             /\ reqs' = [reqs EXCEPT ![r].i = @ + 1,
                                     ![r].at = IF reqs[r].i < Len(reqs[r].design)
                                               THEN "extract" ELSE "export"]
     ELSE reqs' = [reqs EXCEPT ![r].at = "failed"] /\ UNCHANGED site_dir
  /\ UNCHANGED <<pc, zip_file, tokVars, lsVars, navVars, assetVars, pipeVars, genVars,
                 workers, coolVars>>

\* export_images_to_assets makes the assets directory
ExportImages(r) ==
  /\ pc = "requests"
  /\ reqs[r].at = "export"
  /\ site_dir' = [site_dir EXCEPT !.exists = TRUE]
  /\ reqs' = [reqs EXCEPT ![r].at = "zip_exists"]
  /\ UNCHANGED <<pc, zip_file, tokVars, lsVars, navVars, assetVars, pipeVars, genVars,
                 workers, coolVars>>

\* if os.path.exists(zip_path)
CheckZip(r) ==
  /\ pc = "requests"
  /\ reqs[r].at = "zip_exists"
  /\ reqs' = [reqs EXCEPT ![r].at = IF zip_file.exists THEN "zip_remove" ELSE "zip"]
  /\ UNCHANGED <<pc, site_dir, zip_file, tokVars, lsVars, navVars, assetVars, pipeVars, genVars,
                 workers, coolVars>>

\* os.remove(zip_path); FileNotFoundError when the archive has gone
RemoveZip(r) ==
  /\ pc = "requests"
  /\ reqs[r].at = "zip_remove"
  /\ IF zip_file.exists
     THEN zip_file' = NoDir /\ reqs' = [reqs EXCEPT ![r].at = "zip"]
     ELSE reqs' = [reqs EXCEPT ![r].at = "failed"] /\ UNCHANGED zip_file
  /\ UNCHANGED <<pc, site_dir, tokVars, lsVars, navVars, assetVars, pipeVars, genVars,
                 workers, coolVars>>

\* the archive is written from a walk of the output directory, which
\* yields nothing when the directory is missing, and the request returns
WriteZip(r) ==
  /\ pc = "requests"
  /\ reqs[r].at = "zip"
  /\ \E walked \in {IF site_dir.exists THEN site_dir.files ELSE {}} :
       /\ zip_file' = [exists |-> TRUE, files |-> walked]
       /\ reqs' = [reqs EXCEPT ![r].at = "returned", ![r].archive = walked]
  /\ UNCHANGED <<pc, site_dir, tokVars, lsVars, navVars, assetVars, pipeVars, genVars,
                 workers, coolVars>>

NextRequests ==
  \E r \in Requests :
    \/ Convert(r)
    \/ CheckOutDir(r)
    \/ RemoveOutDir(r)
    \/ MakeOutDir(r)
    \/ MakeAssetsDir(r)
    \/ WritePage(r)
    \/ ExportImages(r)
    \/ CheckZip(r)
    \/ RemoveZip(r)
    \/ WriteZip(r)

SpecRequests == InitRequests /\ [][NextRequests]_vars

\* the files generated for the design of request r
Generated(r) == {<<reqs[r].design[k], r>> : k \in 1..Len(reqs[r].design)}

\* C30: two /convert requests whose executions overlap do not interfere:
\* neither fails, and the archive of each holds exactly the files generated
\* for its own design.
C30_OverlappingRequestsIsolated ==
  pc = "requests" =>
    \A r \in Requests : reqs[r].overlap =>
      /\ reqs[r].at # "failed"
      /\ reqs[r].at = "returned" => reqs[r].archive = Generated(r)

====
